---- MODULE Spec2Model ----
(***************************************************************************)
(* A model of the USAR ranklist repository: the derivation and ranking     *)
(* code of result-management/main.py, api/index.py and                     *)
(* result-management/models.py, and the percentage computation of          *)
(* src/parser/pdf_parser.py.                                               *)
(*                                                                         *)
(* Encodings.                                                              *)
(*  - A Python str that the code slices or case-folds (a roll number, the  *)
(*    branch and order query parameters, a branch short name) is a         *)
(*    sequence of one-character strings, so that s[a:b], s.upper() and     *)
(*    s.lower() are computed character by character.  Other strings        *)
(*    (semester, batch, name, grade) are only compared for equality and    *)
(*    are TLA+ strings.                                                    *)
(*  - A float that the code rounds to two decimals is the integer number   *)
(*    of hundredths (7.71 is 771, 75.0 is 7500).                           *)
(*  - None is NoneStr for a plain string, NoneSeq for a character          *)
(*    sequence and NoneInt for an Optional[int] that is never negative.    *)
(***************************************************************************)
EXTENDS Integers, Sequences, FiniteSets, TLC

VARIABLES
    STUDENTS,      \* main.py:43 / index.py:20  the loaded record collection
    request,       \* the parameters of the last API request
    response,      \* the value the last API request returned
    sgpa_student,  \* the student whose SGPA is calculated
    sgpa_result,   \* the function applied last and the value it returned
    pct_student,   \* the StudentResult whose percentage is calculated
    pct_result,    \* the value calculate_percentage returned
    roll_input,    \* the string handed to the roll number decoders
    roll_result,   \* what each decoder returned for roll_input
    pdf,           \* the pages of the PDF, as pdfplumber extracts them
    parser_pc,     \* the parser object: constructed, parsing or returned
    page_num,      \* parse(): the index of the page the loop is at
    self_results,              \* self.results
    self_current_institution,  \* self.current_institution
    self_current_programme,    \* self.current_programme
    self_current_semester,     \* self.current_semester
    self_current_batch,        \* self.current_batch
    self_scheme_info,          \* self.scheme_info
    returned,      \* the value of self.results at each return of parse()
    exported,      \* the rows written by the last export
    app,           \* the serving module: main (main.py) or api (index.py)
    STUDENT_DATA,  \* embedded_data.STUDENT_DATA, NoValue when the import fails
    json_file      \* parsed_results.json, NoValue when there is no file

vars == <<STUDENTS, request, response, sgpa_student, sgpa_result,
          pct_student, pct_result,
          roll_input, roll_result,
          pdf, parser_pc, page_num, self_results,
          self_current_institution, self_current_programme,
          self_current_semester, self_current_batch, self_scheme_info,
          returned, exported,
          app, STUDENT_DATA, json_file>>

api_vars == <<STUDENTS, request, response>>
sgpa_vars == <<sgpa_student, sgpa_result>>
pct_vars == <<pct_student, pct_result>>
roll_vars == <<roll_input, roll_result>>
self_vars == <<self_results, self_current_institution, self_current_programme,
               self_current_semester, self_current_batch, self_scheme_info>>
parser_vars == <<pdf, parser_pc, page_num, self_vars, returned, exported>>
load_vars == <<app, STUDENT_DATA, json_file>>

----------------------------------------------------------------------------
(* Bounds of the model *)

MaxStudents == 3

MaxSubjects == 2

MaxCredit == 4

----------------------------------------------------------------------------
(* Python values and built-ins *)

NoneStr == "<None>"

NoneSeq == <<"<None>">>

NoneInt == -1

NoValue == [kind |-> "none"]

\* bool(s) of an Optional[str] held as a character sequence
TruthySeq(s) == s # NoneSeq /\ s # <<>>

\* bool(s) of an Optional[str] held as a plain string
TruthyStr(s) == s # NoneStr /\ s # ""

\* bool(n) of an Optional[int]
TruthyInt(n) == n # NoneInt /\ n # 0

Min(S) == CHOOSE x \in S : \A y \in S : x <= y

\* s[a:b] for 0 <= a <= b
Slice(s, a, b) ==
    LET hi == IF b < Len(s) THEN b ELSE Len(s)
    IN  IF a >= hi THEN <<>> ELSE [i \in 1..(hi - a) |-> s[a + i]]

LowerLetters == <<"a","b","c","d","e","f","g","h","i","j","k","l","m",
                  "n","o","p","q","r","s","t","u","v","w","x","y","z">>

UpperLetters == <<"A","B","C","D","E","F","G","H","I","J","K","L","M",
                  "N","O","P","Q","R","S","T","U","V","W","X","Y","Z">>

UpperChar(c) ==
    IF \E k \in 1..26 : LowerLetters[k] = c
    THEN UpperLetters[CHOOSE k \in 1..26 : LowerLetters[k] = c]
    ELSE c

LowerChar(c) ==
    IF \E k \in 1..26 : UpperLetters[k] = c
    THEN LowerLetters[CHOOSE k \in 1..26 : UpperLetters[k] = c]
    ELSE c

\* s.upper()
Upper(s) == [i \in 1..Len(s) |-> UpperChar(s[i])]

\* s.lower()
Lower(s) == [i \in 1..Len(s) |-> LowerChar(s[i])]

RECURSIVE SumSeq(_)
SumSeq(s) == IF s = <<>> THEN 0 ELSE Head(s) + SumSeq(Tail(s))

\* round(num / den, 2) in hundredths, for num >= 0 and den > 0.  Python
\* rounds the double nearest to num/den to the nearest hundredth; a quotient
\* that lies exactly halfway between two hundredths has a denominator 8, 40 or
\* 200 in lowest terms.  Within the bounds of this model only 8 occurs, such a
\* quotient is exact in binary, and Python rounds it half to even.
Round2(num, den) ==
    LET q == (100 * num) \div den
        r == (100 * num) % den
    IN  IF 2 * r > den THEN q + 1
        ELSE IF 2 * r < den THEN q
        ELSE IF q % 2 = 0 THEN q ELSE q + 1

----------------------------------------------------------------------------
(* Branch table and roll-number decoding of the two API modules *)

UNK == [short |-> <<"U","N","K">>, name |-> "Unknown"]

Code519 == <<"5","1","9">>

Code516 == <<"5","1","6">>

Code520 == <<"5","2","0">>

Code517 == <<"5","1","7">>

\* main.py:46-51 and index.py:45-50 (the same table in both files)
BRANCH_MAP ==
    (Code519 :> [short |-> <<"A","I","D","S">>,
                 name |-> "Artificial Intelligence & Data Science"]) @@
    (Code516 :> [short |-> <<"A","I","M","L">>,
                 name |-> "Artificial Intelligence & Machine Learning"]) @@
    (Code520 :> [short |-> <<"I","I","O","T">>,
                 name |-> "Industrial Internet of Things"]) @@
    (Code517 :> [short |-> <<"A","R">>,
                 name |-> "Automation & Robotics"])

\* BRANCH_MAP.get(code, {"short": "UNK", "name": "Unknown"})
BRANCH_MAP_get(code) ==
    IF code \in DOMAIN BRANCH_MAP THEN BRANCH_MAP[code] ELSE UNK

\* main.py:53-58
get_branch_from_roll_main(roll_no) ==
    IF Len(roll_no) >= 5 THEN BRANCH_MAP_get(Slice(roll_no, 2, 5)) ELSE UNK

\* index.py:52-56
get_branch_from_roll_api(roll_no) ==
    IF Len(roll_no) >= 5 THEN BRANCH_MAP_get(Slice(roll_no, 6, 9)) ELSE UNK

\* branch_codes = {v["short"]: k for k, v in BRANCH_MAP.items()};
\* branch_codes.get(key), None held as NoneSeq
branch_codes_get(key) ==
    IF \E k \in DOMAIN BRANCH_MAP : BRANCH_MAP[k].short = key
    THEN CHOOSE k \in DOMAIN BRANCH_MAP : BRANCH_MAP[k].short = key
    ELSE NoneSeq

----------------------------------------------------------------------------
(* SGPA *)

\* main.py:69-72 and index.py:65
grade_points ==
    ("O" :> 10) @@ ("A+" :> 9) @@ ("A" :> 8) @@ ("B+" :> 7) @@ ("B" :> 6) @@
    ("C+" :> 5) @@ ("C" :> 4) @@ ("D" :> 3) @@ ("F" :> 0) @@ ("AB" :> 0)

\* grade_points.get(grade, 0)
grade_points_get(grade) ==
    IF grade \in DOMAIN grade_points THEN grade_points[grade] ELSE 0

\* models.py:13-22
GRADE_POINTS ==
    ("O" :> 10) @@ ("A+" :> 9) @@ ("A" :> 8) @@ ("B+" :> 7) @@ ("B" :> 6) @@
    ("C" :> 5) @@ ("P" :> 4) @@ ("F" :> 0)

\* GRADE_POINTS.get(subject.grade, 0)
GRADE_POINTS_get(grade) ==
    IF grade \in DOMAIN GRADE_POINTS THEN GRADE_POINTS[grade] ELSE 0

\* total_credits after the loop of main.py:74-80: every subject's credits
TotalCreditsAll(subjects) ==
    SumSeq([i \in 1..Len(subjects) |-> subjects[i].credits])

\* A plausible slip: the grade points summed without the credit weights.
TotalPointsUnweighted(subjects) ==
    SumSeq([i \in 1..Len(subjects) |-> grade_points_get(subjects[i].grade)])

\* total_points after the loop of main.py:74-80
TotalPointsAll(subjects) ==
    SumSeq([i \in 1..Len(subjects) |->
              subjects[i].credits * grade_points_get(subjects[i].grade)])

\* A plausible slip: the weighted sum divided by the number of subjects.
calculate_sgpa_per_subject(student) ==
    IF student.subjects = <<>> THEN 0
    ELSE IF TotalCreditsAll(student.subjects) = 0 THEN 0
    ELSE Round2(TotalPointsAll(student.subjects), Len(student.subjects))

\* main.py:60-85, calculate_sgpa(student: dict)
calculate_sgpa_main(student) ==
    IF student.subjects = <<>> THEN 0
    ELSE IF TotalCreditsAll(student.subjects) = 0 THEN 0
    ELSE Round2(TotalPointsAll(student.subjects),
                TotalCreditsAll(student.subjects))

\* index.py:58-74, calculate_sgpa(student: dict)
calculate_sgpa_api(student) ==
    IF student.subjects = <<>> THEN 0
    ELSE IF TotalCreditsAll(student.subjects) > 0
         THEN Round2(TotalPointsAll(student.subjects),
                     TotalCreditsAll(student.subjects))
         ELSE 0

\* models.py:152-156: the subjects the loop accumulates
Creditable(subjects) ==
    SelectSeq(subjects, LAMBDA s : s.credits # 0 /\ s.credits > 0)

\* models.py:147-164, Student.calculate_sgpa; self.percentage in hundredths
Student_calculate_sgpa(student) ==
    LET cs == Creditable(student.subjects)
        total_credits == SumSeq([i \in 1..Len(cs) |-> cs[i].credits])
        weighted_sum ==
            SumSeq([i \in 1..Len(cs) |->
                      cs[i].credits * GRADE_POINTS_get(cs[i].grade)])
    IN  IF total_credits > 0 THEN Round2(weighted_sum, total_credits)
        ELSE IF student.percentage # 0 THEN Round2(student.percentage, 1000)
        ELSE 0

----------------------------------------------------------------------------
(* get_ranklist *)

\* The collection with each record's position in it.  The position is kept
\* with the record through filtering and sorting (field pos of a ranklist
\* entry) so that properties can say where an entry came from; the code
\* never reads it.
Indexed(students) ==
    [i \in 1..Len(students) |-> [pos |-> i, rec |-> students[i]]]

\* main.py:119-124 and index.py:107-111; off is the slice offset, 2 in
\* main.py and 6 in index.py
BranchFilter(filtered, branch, off) ==
    IF TruthySeq(branch)
    THEN LET code == branch_codes_get(Upper(branch))
         IN  IF TruthySeq(code)
             THEN SelectSeq(filtered,
                      LAMBDA s : Len(s.rec.roll_no) >= 5
                                 /\ Slice(s.rec.roll_no, off, off + 3) = code)
             ELSE filtered
    ELSE filtered

\* main.py:126-128 and index.py:113-114
SemesterFilter(filtered, semester) ==
    IF TruthyStr(semester)
    THEN SelectSeq(filtered, LAMBDA s : s.rec.semester = semester)
    ELSE filtered

\* main.py:130-132 and index.py:116-117
BatchFilter(filtered, batch) ==
    IF TruthyStr(batch)
    THEN SelectSeq(filtered, LAMBDA s : s.rec.batch = batch)
    ELSE filtered

\* main.py:141-143 and index.py:123-125: the percentage, in hundredths
Percentage(student) ==
    IF student.max_marks > 0
    THEN Round2(student.total_marks * 100, student.max_marks)
    ELSE 0

\* main.py:145-155
ResultMain(s) ==
    [roll_no     |-> s.rec.roll_no,
     name        |-> s.rec.name,
     branch      |-> get_branch_from_roll_main(s.rec.roll_no).short,
     branch_name |-> get_branch_from_roll_main(s.rec.roll_no).name,
     semester    |-> s.rec.semester,
     batch       |-> s.rec.batch,
     sgpa        |-> calculate_sgpa_main(s.rec),
     percentage  |-> Percentage(s.rec),
     credits     |-> s.rec.credits_secured,
     pos         |-> s.pos]

\* index.py:127-137
ResultApi(s) ==
    [roll_no     |-> s.rec.roll_no,
     name        |-> s.rec.name,
     branch      |-> get_branch_from_roll_api(s.rec.roll_no).short,
     branch_name |-> get_branch_from_roll_api(s.rec.roll_no).name,
     semester    |-> s.rec.semester,
     batch       |-> s.rec.batch,
     sgpa        |-> calculate_sgpa_api(s.rec),
     percentage  |-> Percentage(s.rec),
     credits     |-> s.rec.credits_secured,
     pos         |-> s.pos]

\* list.sort compares keys with <; with reverse=True an element goes before
\* another when its key is greater
Before(ka, kb, reverse) == IF reverse THEN ka > kb ELSE ka < kb

\* One step of a stable insertion: index i, which follows every index of perm
\* in the list, goes in front of the first entry it is strictly before.
InsertStable(perm, keys, i, reverse) ==
    LET later == {p \in 1..Len(perm) : Before(keys[i], keys[perm[p]], reverse)}
        cut == IF later = {} THEN Len(perm) + 1 ELSE Min(later)
    IN  SubSeq(perm, 1, cut - 1) \o <<i>> \o SubSeq(perm, cut, Len(perm))

RECURSIVE SortPrefix(_, _, _)
SortPrefix(keys, n, reverse) ==
    IF n = 0 THEN <<>>
    ELSE InsertStable(SortPrefix(keys, n - 1, reverse), keys, n, reverse)

ReverseSeq(s) == [i \in 1..Len(s) |-> s[Len(s) + 1 - i]]

\* A plausible slip: a descending sort obtained by sorting ascending and
\* reversing the result, which reverses the order of equal keys.
SortReversedAfter(keys, reverse) ==
    IF reverse THEN ReverseSeq(SortPrefix(keys, Len(keys), FALSE))
    ELSE SortPrefix(keys, Len(keys), FALSE)

\* A plausible slip: the reverse flag is dropped.
SortIgnoringReverse(keys, reverse) == SortPrefix(keys, Len(keys), FALSE)

\* list.sort(key=..., reverse=reverse): the order of the list's indices after
\* the sort.  Python's sort is stable, also with reverse=True.
PySort(keys, reverse) == SortPrefix(keys, Len(keys), reverse)

\* main.py:159-162: the sort key of an entry
SortKeyMain(x, sort_by) ==
    IF sort_by = "percentage" THEN x.percentage ELSE x.sgpa

\* index.py:140: x.get(sort_by, 0)
SortKeyApi(x, sort_by) ==
    IF sort_by \in DOMAIN x THEN x[sort_by] ELSE 0

\* A plausible slip: ranks counted from 0.
AddRanksFromZero(results) ==
    [i \in 1..Len(results) |-> results[i] @@ [rank |-> i - 1]]

\* main.py:164-166 and index.py:142-143: enumerate(results, 1)
AddRanks(results) ==
    [i \in 1..Len(results) |-> results[i] @@ [rank |-> i]]

\* main.py:108-171
get_ranklist_main(students, branch, semester, batch, sort_by, order) ==
    LET filtered ==
            BatchFilter(SemesterFilter(
                BranchFilter(Indexed(students), branch, 2), semester), batch)
        results == [i \in 1..Len(filtered) |-> ResultMain(filtered[i])]
        reverse == Lower(order) = <<"d","e","s","c">>
        keys == [i \in 1..Len(results) |-> SortKeyMain(results[i], sort_by)]
        perm == PySort(keys, reverse)
        sorted == [i \in 1..Len(perm) |-> results[perm[i]]]
    IN  [kind |-> "ranklist", total |-> Len(sorted), ranklist |-> AddRanks(sorted)]

\* index.py:102-145
get_ranklist_api(students, branch, semester, batch, sort_by, order) ==
    LET filtered ==
            BatchFilter(SemesterFilter(
                BranchFilter(Indexed(students), branch, 6), semester), batch)
        results == [i \in 1..Len(filtered) |-> ResultApi(filtered[i])]
        reverse == Lower(order) = <<"d","e","s","c">>
        keys == [i \in 1..Len(results) |-> SortKeyApi(results[i], sort_by)]
        perm == PySort(keys, reverse)
        sorted == [i \in 1..Len(perm) |-> results[perm[i]]]
    IN  [kind |-> "ranklist", total |-> Len(sorted), ranklist |-> AddRanks(sorted)]

----------------------------------------------------------------------------
(* calculate_percentage of the parser *)

\* pdf_parser.py:242: sum(s.total for s in student.subjects if s.total)
PctTotalMarks(student) ==
    LET counted == SelectSeq(student.subjects, LAMBDA s : TruthyInt(s.total))
    IN  SumSeq([i \in 1..Len(counted) |-> counted[i].total])

\* pdf_parser.py:243: len([s for s in student.subjects if s.total]) * 100
PctMaxMarks(student) ==
    Len(SelectSeq(student.subjects, LAMBDA s : TruthyInt(s.total))) * 100

\* pdf_parser.py:240-246, BTechResultParser.calculate_percentage, in
\* hundredths: (total_marks / max_marks) * 100 rounded to two decimals
calculate_percentage(student) ==
    IF PctMaxMarks(student) > 0
    THEN Round2(PctTotalMarks(student) * 100, PctMaxMarks(student))
    ELSE 0

----------------------------------------------------------------------------
(* The inputs of the model *)

SeqsUpTo(S, n) == UNION {[1..k -> S] : k \in 0..n}

Subj(c, g) == [credits |-> c, grade |-> g]

\* A record of parsed_results.json as the API reads it
StudentDict(roll, name, sem, batch, subjects, total, max, secured) ==
    [roll_no |-> roll, name |-> name, semester |-> sem, batch |-> batch,
     subjects |-> subjects, total_marks |-> total, max_marks |-> max,
     credits_secured |-> secured]

\* 05919051924: characters [6:9) are 519, characters [2:5) are 919
StuA == StudentDict(<<"0","5","9","1","9","0","5","1","9","2","4">>, "ASHA",
                    "01", "2024", <<Subj(4, "O"), Subj(3, "B")>>, 150, 200, 7)

\* same SGPA as StuA (8.29), another percentage
StuB == StudentDict(<<"0","0","1","1","9","0","5","1","9","2","4">>, "BALA",
                    "01", "2024", <<Subj(3, "B"), Subj(4, "O")>>, 160, 200, 7)

\* 00519051624: characters [6:9) are 516, characters [2:5) are 519;
\* same percentage as StuA (75.0), another SGPA
StuC == StudentDict(<<"0","0","5","1","9","0","5","1","6","2","4">>, "CHAND",
                    "02", "2024", <<Subj(4, "A+")>>, 75, 100, 4)

\* a 9-character roll number of branch 520, no subjects
StuD == StudentDict(<<"0","0","3","1","9","0","5","2","0">>, "DEV",
                    "01", "2023", <<>>, 0, 0, 0)

\* a roll number shorter than 5 characters, no creditable subject
StuE == StudentDict(<<"0","5","9","1">>, "ESHA",
                    "", "", <<Subj(0, "O")>>, 90, 100, 0)

\* same SGPA and same percentage as StuA
StuF == StudentDict(<<"0","7","7","1","9","0","5","1","9","2","4">>, "FAIZ",
                    "01", "2024", <<Subj(4, "O"), Subj(3, "B")>>, 150, 200, 7)

StudentUniverse == {StuA, StuB, StuC, StuD, StuE, StuF}

BranchTokens ==
    {NoneSeq, <<>>, <<"a","i","d","s">>, <<"A","I","D","S">>,
     <<"5","1","9">>, <<"x","y","z">>}

SemesterTokens == {NoneStr, "01"}

BatchTokens == {NoneStr, "2024"}

SortByTokens == {"sgpa", "percentage"}

OrderTokens == {<<"a","s","c">>, <<"d","e","s","c">>, <<"D","E","S","C">>}

Grades == {"O", "B", "C", "D", "P", "AB", "RL"}

\* self.percentage values, in hundredths; none ends in 5, so percentage / 10
\* is never halfway between two hundredths
PctValues == {0, 7550}

\* (total, grade) as _parse_student_row leaves them (pdf_parser.py:216-223):
\* a TOTAL(GRADE) cell, a bare administrative token, or no cell
MarkValues ==
    {<<NoneInt, "">>, <<NoneInt, "A">>, <<0, "F">>, <<33, "F">>,
     <<45, "C">>, <<80, "A+">>, <<100, "O">>}

MaxPctSubjects == 3

SubjectResult(m) ==
    [paper_id |-> "015101", credits |-> 4, internal |-> NoneInt,
     external |-> NoneInt, total |-> m[1], grade |-> m[2]]

----------------------------------------------------------------------------
(* The API: the collection is loaded when the module is imported, then      *)
(* requests are served one after the other.  A handler runs from its first  *)
(* line to its return without suspending; its response is handed to the     *)
(* caller (ReturnResponse) and the server is ready for the next request.    *)

InitApi ==
    /\ STUDENTS \in SeqsUpTo(StudentUniverse, MaxStudents)
    /\ request = NoValue
    /\ response = NoValue
    /\ sgpa_student = NoValue
    /\ sgpa_result = NoValue
    /\ pct_student = NoValue
    /\ pct_result = NoValue
    /\ roll_input = NoValue
    /\ roll_result = NoValue
    /\ pdf = NoValue
    /\ parser_pc = NoValue
    /\ page_num = NoValue
    /\ self_results = NoValue
    /\ self_current_institution = NoValue
    /\ self_current_programme = NoValue
    /\ self_current_semester = NoValue
    /\ self_current_batch = NoValue
    /\ self_scheme_info = NoValue
    /\ returned = NoValue
    /\ exported = NoValue
    /\ app = NoValue
    /\ STUDENT_DATA = NoValue
    /\ json_file = NoValue

Request(endpoint, branch, semester, batch, sort_by, order) ==
    [endpoint |-> endpoint, branch |-> branch, semester |-> semester,
     batch |-> batch, sort_by |-> sort_by, order |-> order]

\* GET /api/ranklist served by result-management/main.py
GetRanklistMain ==
    \E branch \in BranchTokens, semester \in SemesterTokens,
       batch \in BatchTokens, sort_by \in SortByTokens, order \in OrderTokens :
        /\ response = NoValue
        /\ request' = Request("main", branch, semester, batch, sort_by, order)
        /\ response' = get_ranklist_main(STUDENTS, branch, semester, batch,
                                         sort_by, order)
        /\ UNCHANGED <<STUDENTS, sgpa_vars, pct_vars, roll_vars, parser_vars, load_vars>>

\* GET /api/ranklist served by api/index.py
GetRanklistApi ==
    \E branch \in BranchTokens, semester \in SemesterTokens,
       batch \in BatchTokens, sort_by \in SortByTokens, order \in OrderTokens :
        /\ response = NoValue
        /\ request' = Request("api", branch, semester, batch, sort_by, order)
        /\ response' = get_ranklist_api(STUDENTS, branch, semester, batch,
                                        sort_by, order)
        /\ UNCHANGED <<STUDENTS, sgpa_vars, pct_vars, roll_vars, parser_vars, load_vars>>

\* The response leaves the handler; nothing of the request is kept.
ReturnResponse ==
    /\ response # NoValue
    /\ request' = NoValue
    /\ response' = NoValue
    /\ UNCHANGED <<STUDENTS, sgpa_vars, pct_vars, roll_vars, parser_vars, load_vars>>

NextApi == GetRanklistMain \/ GetRanklistApi \/ ReturnResponse

Spec == InitApi /\ [][NextApi]_vars

----------------------------------------------------------------------------
(* The SGPA functions applied to a student *)

InitSgpa ==
    /\ sgpa_student \in
         [subjects : SeqsUpTo([credits : 0..MaxCredit, grade : Grades],
                              MaxSubjects),
          percentage : PctValues]
    /\ sgpa_result = NoValue
    /\ STUDENTS = <<>>
    /\ request = NoValue
    /\ response = NoValue
    /\ pct_student = NoValue
    /\ pct_result = NoValue
    /\ roll_input = NoValue
    /\ roll_result = NoValue
    /\ pdf = NoValue
    /\ parser_pc = NoValue
    /\ page_num = NoValue
    /\ self_results = NoValue
    /\ self_current_institution = NoValue
    /\ self_current_programme = NoValue
    /\ self_current_semester = NoValue
    /\ self_current_batch = NoValue
    /\ self_scheme_info = NoValue
    /\ returned = NoValue
    /\ exported = NoValue
    /\ app = NoValue
    /\ STUDENT_DATA = NoValue
    /\ json_file = NoValue

CalcSgpaMain ==
    /\ sgpa_result' = [fn |-> "main", value |-> calculate_sgpa_main(sgpa_student)]
    /\ UNCHANGED <<sgpa_student, api_vars, pct_vars, roll_vars, parser_vars, load_vars>>

CalcSgpaApi ==
    /\ sgpa_result' = [fn |-> "api", value |-> calculate_sgpa_api(sgpa_student)]
    /\ UNCHANGED <<sgpa_student, api_vars, pct_vars, roll_vars, parser_vars, load_vars>>

CalcSgpaStudent ==
    /\ sgpa_result' = [fn |-> "models",
                       value |-> Student_calculate_sgpa(sgpa_student)]
    /\ UNCHANGED <<sgpa_student, api_vars, pct_vars, roll_vars, parser_vars, load_vars>>

NextSgpa == CalcSgpaMain \/ CalcSgpaApi \/ CalcSgpaStudent

SpecSgpa == InitSgpa /\ [][NextSgpa]_vars

----------------------------------------------------------------------------
(* calculate_percentage applied to a parsed student *)

InitPct ==
    /\ pct_student \in
         [subjects : SeqsUpTo({SubjectResult(m) : m \in MarkValues},
                              MaxPctSubjects)]
    /\ pct_result = NoValue
    /\ STUDENTS = <<>>
    /\ request = NoValue
    /\ response = NoValue
    /\ sgpa_student = NoValue
    /\ sgpa_result = NoValue
    /\ roll_input = NoValue
    /\ roll_result = NoValue
    /\ pdf = NoValue
    /\ parser_pc = NoValue
    /\ page_num = NoValue
    /\ self_results = NoValue
    /\ self_current_institution = NoValue
    /\ self_current_programme = NoValue
    /\ self_current_semester = NoValue
    /\ self_current_batch = NoValue
    /\ self_scheme_info = NoValue
    /\ returned = NoValue
    /\ exported = NoValue
    /\ app = NoValue
    /\ STUDENT_DATA = NoValue
    /\ json_file = NoValue

CalcPercentage ==
    /\ pct_result' = [value |-> calculate_percentage(pct_student)]
    /\ UNCHANGED <<pct_student, api_vars, sgpa_vars, roll_vars, parser_vars, load_vars>>

NextPct == CalcPercentage

SpecPct == InitPct /\ [][NextPct]_vars

----------------------------------------------------------------------------
(* Properties of get_ranklist, stated on the response of the request in     *)
(* `request` over the collection STUDENTS                                   *)

IsRanklist == response.kind = "ranklist"

\* The sort key the request names, of a ranklist entry
RequestedKey(x) == x[request.sort_by]

RequestedDesc == Lower(request.order) = <<"d","e","s","c">>

\* Two neighbours of the ranklist with the same value of the requested key
TiedNeighbours(i) ==
    /\ i + 1 <= Len(response.ranklist)
    /\ RequestedKey(response.ranklist[i]) = RequestedKey(response.ranklist[i + 1])

\* C1: the ranks of a returned ranklist are 1, 2, ..., N in list order, N the
\* number of entries returned (which is also `total`); tied records get
\* distinct consecutive ranks.
C1_RanksAreOneToN ==
    IsRanklist =>
        /\ response.total = Len(response.ranklist)
        /\ \A i \in 1..Len(response.ranklist) : response.ranklist[i].rank = i

\* A ranklist of three entries in which two neighbours tie on the sort key
\* and carry the ranks i and i + 1
C1_Witness ==
    /\ IsRanklist
    /\ Len(response.ranklist) = 3
    /\ \E i \in 1..2 :
          /\ TiedNeighbours(i)
          /\ response.ranklist[i].rank = i
          /\ response.ranklist[i + 1].rank = i + 1

\* C2: two entries with equal values of the requested sort key appear in the
\* order in which their records stand in the collection, for asc and for desc.
C2_SortIsStable ==
    IsRanklist =>
        \A i, j \in 1..Len(response.ranklist) :
            (i < j /\ RequestedKey(response.ranklist[i])
                        = RequestedKey(response.ranklist[j]))
                => response.ranklist[i].pos < response.ranklist[j].pos

\* A descending ranklist with a tie and with a record of a larger key that
\* stood behind the tied records in the collection
C2_Witness ==
    /\ IsRanklist
    /\ RequestedDesc
    /\ Len(response.ranklist) = 3
    /\ \E i \in 1..2 : TiedNeighbours(i)
    /\ response.ranklist[1].pos = 3

\* C3: the requested field is non-increasing along the ranklist when order is
\* desc and non-decreasing otherwise.
C3_OrderedByRequestedKey ==
    IsRanklist =>
        \A i \in 1..Len(response.ranklist) :
            i + 1 <= Len(response.ranklist) =>
                IF RequestedDesc
                THEN RequestedKey(response.ranklist[i])
                       >= RequestedKey(response.ranklist[i + 1])
                ELSE RequestedKey(response.ranklist[i])
                       <= RequestedKey(response.ranklist[i + 1])

\* A descending ranklist by percentage whose records had to be reordered
C3_Witness ==
    /\ IsRanklist
    /\ RequestedDesc
    /\ request.sort_by = "percentage"
    /\ Len(response.ranklist) >= 2
    /\ response.ranklist[1].percentage > response.ranklist[2].percentage
    /\ response.ranklist[1].pos > response.ranklist[2].pos

\* The branch a record decodes to in the module that served the request
DecodedBranch(rec) ==
    IF request.endpoint = "main" THEN get_branch_from_roll_main(rec.roll_no)
    ELSE get_branch_from_roll_api(rec.roll_no)

\* The raw three-character branch code of a record in that module
RawBranchCode(rec) ==
    IF request.endpoint = "main" THEN Slice(rec.roll_no, 2, 5)
    ELSE Slice(rec.roll_no, 6, 9)

\* The branch filter as specified: the token equals the decoded branch_short
\* ignoring case, or equals the raw branch code
SpecBranchMatch(rec, token) ==
    \/ Upper(token) = Upper(DecodedBranch(rec).short)
    \/ (Len(rec.roll_no) >= 5 /\ token = RawBranchCode(rec))

\* The token names one of the four branches, by short name or by code
RecognizedBranch(token) ==
    \/ \E k \in DOMAIN BRANCH_MAP : Upper(token) = BRANCH_MAP[k].short
    \/ token \in DOMAIN BRANCH_MAP

SpecSemesterMatch(rec) ==
    TruthyStr(request.semester) => rec.semester = request.semester

SpecBatchMatch(rec) ==
    TruthyStr(request.batch) => rec.batch = request.batch

\* The positions of the records that satisfy every supplied filter
SpecSelected ==
    {i \in 1..Len(STUDENTS) :
        /\ TruthySeq(request.branch)
              => SpecBranchMatch(STUDENTS[i], request.branch)
        /\ SpecSemesterMatch(STUDENTS[i])
        /\ SpecBatchMatch(STUDENTS[i])}

ReturnedPositions ==
    {response.ranklist[k].pos : k \in 1..Len(response.ranklist)}

\* C4: the ranklist holds exactly the records that satisfy every supplied
\* filter, each once, and total is their number (0 and an empty ranklist for
\* an empty collection).
C4_ExactlyTheSelected ==
    IsRanklist =>
        /\ ReturnedPositions = SpecSelected
        /\ Len(response.ranklist) = Cardinality(SpecSelected)
        /\ response.total = Cardinality(SpecSelected)

\* C5: for a token that names a branch by short name (in any case) or by raw
\* code, a record that passes the other filters is kept if and only if the
\* token equals its branch_short ignoring case or equals its raw branch_code.
C5_BranchFilterShortOrCode ==
    (IsRanklist /\ TruthySeq(request.branch) /\ RecognizedBranch(request.branch))
        => \A i \in 1..Len(STUDENTS) :
              (SpecSemesterMatch(STUDENTS[i]) /\ SpecBatchMatch(STUDENTS[i]))
                  => (i \in ReturnedPositions
                        <=> SpecBranchMatch(STUDENTS[i], request.branch))

\* C6: a branch token that names no branch yields total 0 and an empty
\* ranklist, whatever the collection holds.
C6_UnknownBranchYieldsNothing ==
    (IsRanklist /\ TruthySeq(request.branch) /\ ~RecognizedBranch(request.branch))
        => (response.total = 0 /\ response.ranklist = <<>>)

----------------------------------------------------------------------------
(* Properties of the SGPA functions, stated on sgpa_result                  *)

\* The grade-point table of the specification
SpecGradePoints ==
    ("O" :> 10) @@ ("A+" :> 9) @@ ("A" :> 8) @@ ("B+" :> 7) @@ ("B" :> 6) @@
    ("C+" :> 5) @@ ("C" :> 4) @@ ("D" :> 3) @@ ("F" :> 0) @@ ("AB" :> 0)

PositiveCredit(subjects) == SelectSeq(subjects, LAMBDA s : s.credits > 0)

SpecCredits(subjects) ==
    LET ps == PositiveCredit(subjects)
    IN  SumSeq([i \in 1..Len(ps) |-> ps[i].credits])

SpecPoints(subjects) ==
    LET ps == PositiveCredit(subjects)
    IN  SumSeq([i \in 1..Len(ps) |-> ps[i].credits * SpecGradePoints[ps[i].grade]])

GradesInSpecTable(subjects) ==
    \A i \in 1..Len(subjects) :
        subjects[i].credits > 0 => subjects[i].grade \in DOMAIN SpecGradePoints

ExampleSubjects == <<Subj(4, "O"), Subj(3, "B")>>

\* The grade-point table of models.py, as the amended C7 states it
SecondaryGradePoints ==
    ("O" :> 10) @@ ("A+" :> 9) @@ ("A" :> 8) @@ ("B+" :> 7) @@ ("B" :> 6) @@
    ("C" :> 5) @@ ("P" :> 4) @@ ("F" :> 0)

SecondaryPoints(subjects) ==
    LET ps == PositiveCredit(subjects)
    IN  SumSeq([i \in 1..Len(ps) |->
                  ps[i].credits * (IF ps[i].grade \in DOMAIN SecondaryGradePoints
                                   THEN SecondaryGradePoints[ps[i].grade]
                                   ELSE 0)])

\* C7 as claimed: for a subject list with creditable subjects, all graded from
\* the specified table, every SGPA function returns
\* round(sum(credits * grade_point) / sum(credits), 2) over credits > 0, and
\* the subjects [{credits 4, grade O}, {credits 3, grade B}] give 7.71.
C7_Original ==
    (/\ sgpa_result # NoValue
     /\ SpecCredits(sgpa_student.subjects) > 0
     /\ GradesInSpecTable(sgpa_student.subjects))
        => /\ sgpa_result.value = Round2(SpecPoints(sgpa_student.subjects),
                                         SpecCredits(sgpa_student.subjects))
           /\ (sgpa_student.subjects = ExampleSubjects
                  => sgpa_result.value = 771)

\* C7 (amended): for a subject list with creditable subjects, calculate_sgpa of
\* main.py and api/index.py returns round(sum(credits * grade_point) /
\* sum(credits), 2) over credits > 0 with the specified table,
\* Student.calculate_sgpa of models.py returns the same expression with its
\* own table (C = 5, P = 4, every other token outside O, A+, A, B+, B, F
\* counting 0), and the subjects [{4, O}, {3, B}] give 8.29 in all of them.
C7_SgpaIsWeightedMean ==
    (sgpa_result # NoValue /\ SpecCredits(sgpa_student.subjects) > 0)
        => /\ (sgpa_result.fn \in {"main", "api"}
                 /\ GradesInSpecTable(sgpa_student.subjects))
                  => sgpa_result.value =
                        Round2(SpecPoints(sgpa_student.subjects),
                               SpecCredits(sgpa_student.subjects))
           /\ sgpa_result.fn = "models"
                  => sgpa_result.value =
                        Round2(SecondaryPoints(sgpa_student.subjects),
                               SpecCredits(sgpa_student.subjects))
           /\ sgpa_student.subjects = ExampleSubjects
                  => sgpa_result.value = 829

\* The example list has gone through calculate_sgpa of main.py
C7_Witness ==
    /\ sgpa_result # NoValue
    /\ sgpa_result.fn = "main"
    /\ sgpa_student.subjects = ExampleSubjects
    /\ sgpa_result.value = 829

\* C8: with no creditable subject every SGPA function returns
\* round(percentage / 10, 2), which is 0.0 only for a zero percentage.
C8_FallbackToPercentage ==
    (sgpa_result # NoValue /\ SpecCredits(sgpa_student.subjects) = 0)
        => /\ sgpa_result.value = Round2(sgpa_student.percentage, 1000)
           /\ (sgpa_result.value = 0 => sgpa_student.percentage = 0)

\* C9: for non-negative credits with a positive total the SGPA lies in
\* [0, 10], whatever the grade tokens are.
C9_SgpaWithinRange ==
    (sgpa_result # NoValue /\ TotalCreditsAll(sgpa_student.subjects) > 0)
        => (0 <= sgpa_result.value /\ sgpa_result.value <= 1000)

\* An SGPA of exactly 10.0 computed over a list that also holds a subject
\* without credits and with a token of no grade table
C9_Witness ==
    /\ sgpa_result # NoValue
    /\ sgpa_result.value = 1000
    /\ \E i \in 1..Len(sgpa_student.subjects) :
          /\ sgpa_student.subjects[i].credits = 0
          /\ sgpa_student.subjects[i].grade = "RL"

----------------------------------------------------------------------------
(* Properties of calculate_percentage, stated on pct_result                 *)

NumericTotals(student) ==
    SelectSeq(student.subjects, LAMBDA s : s.total # NoneInt)

\* C10: the percentage is round(total_marks / max_marks * 100, 2) with
\* max_marks 100 times the number of subjects that have a numeric total, a
\* total of 0 included, and 0.0 when no subject has one.
C10_PercentageOverNumericTotals ==
    pct_result # NoValue =>
        LET ns == NumericTotals(pct_student)
            total_marks == SumSeq([i \in 1..Len(ns) |-> ns[i].total])
            max_marks == 100 * Len(ns)
        IN  pct_result.value =
                IF Len(ns) = 0 THEN 0 ELSE Round2(total_marks * 100, max_marks)

----------------------------------------------------------------------------
(* Roll number decoding of result-management/models.py *)

Max(S) == CHOOSE x \in S : \A y \in S : y <= x

Whitespace == {" ", "\t", "\n"}

\* s.strip()
Strip(s) ==
    LET kept == {i \in 1..Len(s) : s[i] \notin Whitespace}
    IN  IF kept = {} THEN <<>> ELSE Slice(s, Min(kept) - 1, Max(kept))

\* BranchInfo.BRANCHES: the short name is stored under the key "code"
BRANCHES ==
    (Code519 :> [code |-> <<"A","I","D","S">>,
                 name |-> "Artificial Intelligence & Data Science"]) @@
    (Code516 :> [code |-> <<"A","I","M","L">>,
                 name |-> "Artificial Intelligence & Machine Learning"]) @@
    (Code520 :> [code |-> <<"I","I","O","T">>,
                 name |-> "Industrial Internet of Things"]) @@
    (Code517 :> [code |-> <<"A","R">>,
                 name |-> "Automation & Robotics"])

\* the default of BranchInfo.get_branch
UnknownBranch ==
    [code |-> <<"U","n","k","n","o","w","n">>, name |-> "Unknown Branch"]

\* BranchInfo.get_branch(code)
get_branch(code) ==
    IF code \in DOMAIN BRANCHES THEN BRANCHES[code] ELSE UnknownBranch

\* cls(roll_no=..., ...): the fields not given keep their default ""
EnrollmentDetails(roll_no, class_roll, school_code, branch_code, admission_year, branch_short, branch_name) ==
    [roll_no |-> roll_no, class_roll |-> class_roll, school_code |-> school_code,
     branch_code |-> branch_code, admission_year |-> admission_year,
     branch_short |-> branch_short, branch_name |-> branch_name]

\* EnrollmentDetails.parse with the admission year cut one character short
EnrollmentDetails_parse_short_year(r) ==
    LET roll == Strip(r)
        branch_code == Slice(roll, 6, 9)
        branch_info == get_branch(branch_code)
    IN  IF Len(roll) >= 11
        THEN EnrollmentDetails(r, Slice(roll, 0, 3), Slice(roll, 3, 6),
                               branch_code, Slice(roll, 9, 10),
                               branch_info.code, branch_info.name)
        ELSE IF Len(roll) >= 9
        THEN EnrollmentDetails(r, Slice(roll, 0, 3), Slice(roll, 3, 6),
                               branch_code, <<>>,
                               branch_info.code, branch_info.name)
        ELSE EnrollmentDetails(r, <<>>, <<>>, <<>>, <<>>, <<>>, "")

\* EnrollmentDetails.parse(roll_no)
EnrollmentDetails_parse(r) ==
    LET roll == Strip(r)
        branch_code == Slice(roll, 6, 9)
        branch_info == get_branch(branch_code)
    IN  IF Len(roll) >= 11
        THEN EnrollmentDetails(r, Slice(roll, 0, 3), Slice(roll, 3, 6),
                               branch_code, Slice(roll, 9, 11),
                               branch_info.code, branch_info.name)
        ELSE IF Len(roll) >= 9
        THEN EnrollmentDetails(r, Slice(roll, 0, 3), Slice(roll, 3, 6),
                               branch_code, <<>>,
                               branch_info.code, branch_info.name)
        ELSE EnrollmentDetails(r, <<>>, <<>>, <<>>, <<>>, <<>>, "")

----------------------------------------------------------------------------
(* The decoders applied to a string.  The strings are the prefixes of       *)
(* thirteen-character strings laid out as a roll number (class roll,        *)
(* school code, branch code, admission year, two more characters), some     *)
(* with a leading or a trailing blank, and the bare branch codes.           *)

MaxRollLen == 12

RollClassRolls == {<<"0","5","9">>, <<"0","0","5">>, <<" ","0","5">>}

RollBranchCodes == {Code519, Code520, <<"9","9","9">>}

RollYears == {<<"2","4">>, <<"2"," ">>}

RollBases ==
    {c \o <<"1","9","0">> \o b \o y \o <<"0","0">> :
        c \in RollClassRolls, b \in RollBranchCodes, y \in RollYears}

RollInputs ==
    {Slice(b, 0, n) : b \in RollBases, n \in 0..MaxRollLen}
        \cup DOMAIN BRANCHES \cup RollBranchCodes

InitRoll ==
    /\ roll_input \in RollInputs
    /\ roll_result = [parse |-> NoValue, main |-> NoValue, api |-> NoValue,
                      get_branch |-> NoValue]
    /\ STUDENTS = <<>>
    /\ request = NoValue
    /\ response = NoValue
    /\ sgpa_student = NoValue
    /\ sgpa_result = NoValue
    /\ pct_student = NoValue
    /\ pct_result = NoValue
    /\ pdf = NoValue
    /\ parser_pc = NoValue
    /\ page_num = NoValue
    /\ self_results = NoValue
    /\ self_current_institution = NoValue
    /\ self_current_programme = NoValue
    /\ self_current_semester = NoValue
    /\ self_current_batch = NoValue
    /\ self_scheme_info = NoValue
    /\ returned = NoValue
    /\ exported = NoValue
    /\ app = NoValue
    /\ STUDENT_DATA = NoValue
    /\ json_file = NoValue

\* EnrollmentDetails.parse(roll_no) of models.py
ParseEnrollment ==
    /\ roll_result' =
         [roll_result EXCEPT !.parse = EnrollmentDetails_parse(roll_input)]
    /\ UNCHANGED <<roll_input, api_vars, sgpa_vars, pct_vars, parser_vars, load_vars>>

\* get_branch_from_roll(roll_no) of main.py
BranchFromRollMain ==
    /\ roll_result' =
         [roll_result EXCEPT !.main = get_branch_from_roll_main(roll_input)]
    /\ UNCHANGED <<roll_input, api_vars, sgpa_vars, pct_vars, parser_vars, load_vars>>

\* get_branch_from_roll(roll_no) of api/index.py
BranchFromRollApi ==
    /\ roll_result' =
         [roll_result EXCEPT !.api = get_branch_from_roll_api(roll_input)]
    /\ UNCHANGED <<roll_input, api_vars, sgpa_vars, pct_vars, parser_vars, load_vars>>

\* BranchInfo.get_branch(code), the string taken as a branch code
GetBranch ==
    /\ roll_result' = [roll_result EXCEPT !.get_branch = get_branch(roll_input)]
    /\ UNCHANGED <<roll_input, api_vars, sgpa_vars, pct_vars, parser_vars, load_vars>>

NextRoll ==
    ParseEnrollment \/ BranchFromRollMain \/ BranchFromRollApi \/ GetBranch

SpecRoll == InitRoll /\ [][NextRoll]_vars

----------------------------------------------------------------------------
(* Properties of the roll number decoders, stated on the results kept in    *)
(* roll_result                                                              *)

Digits == {"0", "1", "2", "3", "4", "5", "6", "7", "8", "9"}

\* a roll number of the fixed layout: eleven digits
ValidRoll(r) == Len(r) = 11 /\ \A i \in 1..Len(r) : r[i] \in Digits

\* the four-entry table of the specification and its sentinel
SpecBranchTable ==
    (<<"5","1","9">> :> [short |-> <<"A","I","D","S">>,
                         name |-> "Artificial Intelligence & Data Science"]) @@
    (<<"5","1","6">> :> [short |-> <<"A","I","M","L">>,
                         name |-> "Artificial Intelligence & Machine Learning"]) @@
    (<<"5","2","0">> :> [short |-> <<"I","I","O","T">>,
                         name |-> "Industrial Internet of Things"]) @@
    (<<"5","1","7">> :> [short |-> <<"A","R">>,
                         name |-> "Automation & Robotics"])

SpecUnknown == [short |-> <<"U","N","K">>, name |-> "Unknown"]

SpecResolve(code) ==
    IF code \in DOMAIN SpecBranchTable THEN SpecBranchTable[code]
    ELSE SpecUnknown

\* the branch an EnrollmentDetails reports, as a {short, name} pair
ReportedBranch(details) ==
    [short |-> details.branch_short, name |-> details.branch_name]

\* C11: for a roll number of the fixed eleven-digit layout, every decoder
\* that has been applied to it (EnrollmentDetails.parse and the
\* get_branch_from_roll of main.py and of api/index.py) reports the branch
\* that characters [6:9) of the roll number stand for, hence the same branch.
C11_SameBranchOnEveryPath ==
    ValidRoll(roll_input) =>
        LET expected == SpecResolve(Slice(roll_input, 6, 9))
        IN  /\ roll_result.main # NoValue => roll_result.main = expected
            /\ roll_result.api # NoValue => roll_result.api = expected
            /\ roll_result.parse # NoValue =>
                   /\ roll_result.parse.branch_code = Slice(roll_input, 6, 9)
                   /\ ReportedBranch(roll_result.parse) = expected

\* C12: resolving a branch code gives the table entry of 519, 516, 520 and
\* 517 (520: IIOT, Industrial Internet of Things) and {UNK, Unknown} for
\* every other code; stated for BranchInfo.get_branch on its argument and
\* for each get_branch_from_roll on the code it cuts out of the roll number.
C12_ResolveTableOrUnk ==
    /\ roll_result.get_branch # NoValue =>
           [short |-> roll_result.get_branch.code,
            name |-> roll_result.get_branch.name] = SpecResolve(roll_input)
    /\ roll_result.main # NoValue /\ Len(roll_input) >= 5 =>
           roll_result.main = SpecResolve(Slice(roll_input, 2, 5))
    /\ roll_result.api # NoValue /\ Len(roll_input) >= 5 =>
           roll_result.api = SpecResolve(Slice(roll_input, 6, 9))

\* the Unknown sentinel in either of the two spellings found in the code
IsUnknownSentinel(branch) ==
    \/ branch = SpecUnknown
    \/ branch = [short |-> UnknownBranch.code, name |-> UnknownBranch.name]

\* C13: for a roll number shorter than nine characters the decoder returns
\* class_roll, school_code, branch_code and admission_year empty, keeps
\* roll_no, and reports the Unknown sentinel as the branch; so does
\* get_branch_from_roll of main.py.
C13_ShortRollIsUnknown ==
    Len(roll_input) < 9 =>
        /\ roll_result.parse # NoValue =>
               /\ roll_result.parse.roll_no = roll_input
               /\ roll_result.parse.class_roll = <<>>
               /\ roll_result.parse.school_code = <<>>
               /\ roll_result.parse.branch_code = <<>>
               /\ roll_result.parse.admission_year = <<>>
               /\ IsUnknownSentinel(ReportedBranch(roll_result.parse))
        /\ roll_result.main # NoValue => IsUnknownSentinel(roll_result.main)

\* C14: for an eleven-digit roll number the decoded fields are the
\* substrings [0:3), [3:6), [6:9) and [9:11), and class_roll, school_code,
\* branch_code and admission_year concatenated give the roll number back.
C14_FieldsAreTheSlices ==
    ValidRoll(roll_input) /\ roll_result.parse # NoValue =>
        LET d == roll_result.parse
        IN  /\ d.roll_no = roll_input
            /\ d.class_roll = Slice(roll_input, 0, 3)
            /\ d.school_code = Slice(roll_input, 3, 6)
            /\ d.branch_code = Slice(roll_input, 6, 9)
            /\ d.admission_year = Slice(roll_input, 9, 11)
            /\ d.class_roll \o d.school_code \o d.branch_code
                   \o d.admission_year = roll_input

C14_Witness ==
    /\ ValidRoll(roll_input)
    /\ roll_result.parse # NoValue
    /\ roll_result.parse.admission_year = <<"2","4">>
    /\ roll_result.parse.branch_code = Code520

----------------------------------------------------------------------------
(* Text handling of the PDF parser.  A cell of an extracted table is None   *)
(* (NoneSeq) or a string, held as a sequence of characters; positions are   *)
(* counted from 1.                                                          *)

DigitChars == <<"0", "1", "2", "3", "4", "5", "6", "7", "8", "9">>

IsDigits(s) == \A i \in 1..Len(s) : \E n \in 1..10 : DigitChars[n] = s[i]

DigitValue(c) == (CHOOSE n \in 1..10 : DigitChars[n] = c) - 1

\* int(s) of a string of decimal digits
RECURSIVE ParseDigits(_)
ParseDigits(s) ==
    IF s = <<>> THEN 0
    ELSE ParseDigits(SubSeq(s, 1, Len(s) - 1)) * 10 + DigitValue(s[Len(s)])

\* the length of the longest run of characters of class that starts at p
RunLength(s, p, class) ==
    LET stops == {q \in p..Len(s) : s[q] \notin class}
    IN  IF stops = {} THEN Len(s) - p + 1 ELSE Min(stops) - p

\* s.split(sep) for a one-character sep
RECURSIVE Split(_, _)
Split(s, sep) ==
    LET at == {i \in 1..Len(s) : s[i] = sep}
    IN  IF at = {} THEN <<s>>
        ELSE <<SubSeq(s, 1, Min(at) - 1)>>
                 \o Split(SubSeq(s, Min(at) + 1, Len(s)), sep)

StartsAt(s, sub, p) ==
    /\ p + Len(sub) - 1 <= Len(s)
    /\ SubSeq(s, p, p + Len(sub) - 1) = sub

\* sub in s, for a non-empty sub
Contains(s, sub) == \E p \in 1..Len(s) : StartsAt(s, sub, p)

\* s.replace(sub, '')
RECURSIVE Remove(_, _)
Remove(s, sub) ==
    LET at == {p \in 1..Len(s) : StartsAt(s, sub, p)}
    IN  IF at = {} THEN s
        ELSE SubSeq(s, 1, Min(at) - 1)
                 \o Remove(SubSeq(s, Min(at) + Len(sub), Len(s)), sub)

\* ' '.join(parts)
RECURSIVE Join(_)
Join(parts) ==
    IF parts = <<>> THEN <<>>
    ELSE IF Len(parts) = 1 THEN parts[1]
    ELSE parts[1] \o <<" ">> \o Join(Tail(parts))

\* int(s.strip()): ok is FALSE where int() raises ValueError.  Digits with
\* an optional sign are read; the strings of the model hold no underscore.
int(s) ==
    LET t == Strip(s)
        signed == t # <<>> /\ t[1] \in {"+", "-"}
        body == IF signed THEN Tail(t) ELSE t
    IN  IF body # <<>> /\ IsDigits(body)
        THEN [ok |-> TRUE,
              value |-> IF signed /\ t[1] = "-" THEN 0 - ParseDigits(body)
                        ELSE ParseDigits(body)]
        ELSE [ok |-> FALSE, value |-> 0]

\* paper_pattern = re.compile(r'(\d{6})\((\d+)\)'): a match that starts at p
PaperMatchAt(s, p) ==
    /\ p + 8 <= Len(s)
    /\ IsDigits(SubSeq(s, p, p + 5))
    /\ s[p + 6] = "("
    /\ RunLength(s, p + 7, Digits) >= 1
    /\ p + 7 + RunLength(s, p + 7, Digits) <= Len(s)
    /\ s[p + 7 + RunLength(s, p + 7, Digits)] = ")"

\* paper_pattern.search(s): the leftmost match, its two groups
paper_pattern_search(s) ==
    LET at == {p \in 1..Len(s) : PaperMatchAt(s, p)}
        p == Min(at)
    IN  IF at = {} THEN [matched |-> FALSE, paper_id |-> <<>>, credits |-> 0]
        ELSE [matched |-> TRUE,
              paper_id |-> SubSeq(s, p, p + 5),
              credits |-> ParseDigits(
                  SubSeq(s, p + 7, p + 6 + RunLength(s, p + 7, Digits)))]

\* the character class [A-Z+\-]
GradeChars == {UpperLetters[k] : k \in 1..26} \cup {"+", "-"}

\* re.match(r'(\d+)\(([A-Z+\-]+|F)\)', s): anchored at the start of s only
total_match(s) ==
    LET d == RunLength(s, 1, Digits)
        g == RunLength(s, d + 2, GradeChars)
    IN  IF /\ d >= 1
           /\ d + 1 <= Len(s) /\ s[d + 1] = "("
           /\ g >= 1
           /\ d + 2 + g <= Len(s) /\ s[d + 2 + g] = ")"
        THEN [matched |-> TRUE, total |-> ParseDigits(SubSeq(s, 1, d)),
              grade |-> SubSeq(s, d + 2, d + 1 + g)]
        ELSE [matched |-> FALSE, total |-> 0, grade |-> <<>>]

----------------------------------------------------------------------------
(* BTechResultParser of src/parser/pdf_parser.py.  A table is a sequence of *)
(* rows, a row a sequence of cells or None (NoneRow); rows, cells and       *)
(* columns are numbered from 0 as in the code.                              *)

NoneRow == << <<"<NoneRow>">> >>

\* len(table) > k and table[k]
RowAt(table, k) == table[k + 1]

CellAt(row, k) == row[k + 1]

\* not row
EmptyRow(row) == row = NoneRow \/ row = <<>>

SID == <<"S","I","D",":">>

SchemeID == <<"S","c","h","e","m","e","I","D",":">>

\* the dataclass SubjectResult(paper_id=..., credits=...)
SubjectResult_init(paper_id, credits) ==
    [paper_id |-> paper_id, credits |-> credits, internal |-> NoneInt,
     external |-> NoneInt, total |-> NoneInt, grade |-> <<>>]

\* the dataclass StudentResult(...), subjects still empty
StudentResult(roll_no, name, sid, scheme_id, institution, programme, semester, batch) ==
    [roll_no |-> roll_no, name |-> name, sid |-> sid, scheme_id |-> scheme_id,
     institution |-> institution, programme |-> programme,
     semester |-> semester, batch |-> batch, subjects |-> <<>>,
     total_credits_secured |-> 0, remarks |-> <<>>]

\* lines 157-163: sid is taken from the last line that holds 'SID:'
sid_of(lines) ==
    LET hits == {k \in 1..Len(lines) : Contains(lines[k], SID)}
    IN  IF hits = {} THEN <<>> ELSE Strip(Remove(lines[Max(hits)], SID))

\* lines 157-163: scheme_id from the last line without 'SID:' that holds
\* 'SchemeID:'
scheme_id_of(lines) ==
    LET hits == {k \in 1..Len(lines) : /\ ~Contains(lines[k], SID)
                                       /\ Contains(lines[k], SchemeID)}
    IN  IF hits = {} THEN <<>> ELSE Strip(Remove(lines[Max(hits)], SchemeID))

\* lines 177-187: the papers named in the cells of row[2:], in column order
papers_of(row) ==
    LET named == SelectSeq(SubSeq(row, 3, Len(row)),
                           LAMBDA cell : /\ TruthySeq(cell)
                                         /\ paper_pattern_search(cell).matched)
    IN  [k \in 1..Len(named) |->
            [paper_id |-> paper_pattern_search(named[k]).paper_id,
             credits |-> paper_pattern_search(named[k]).credits]]

\* internal_row[col] when the column exists and the cell is not empty
FilledCell(row, col) == col < Len(row) /\ TruthySeq(CellAt(row, col))

AdminTokens == {<<"A">>, <<"R","L">>, <<"C">>, <<"D">>, <<"A","P">>}

\* lines 196-225: the subject of one paper, marks read at col_idx
subject_of(paper, col_idx, internal_row, total_row) ==
    LET total_str == Strip(CellAt(total_row, col_idx))
        tm == total_match(total_str)
    IN  [paper_id |-> paper.paper_id,
         credits |-> paper.credits,
         internal |->
            IF /\ FilledCell(internal_row, col_idx)
               /\ int(CellAt(internal_row, col_idx)).ok
            THEN int(CellAt(internal_row, col_idx)).value ELSE NoneInt,
         external |->
            IF /\ FilledCell(internal_row, col_idx + 1)
               /\ int(CellAt(internal_row, col_idx + 1)).ok
            THEN int(CellAt(internal_row, col_idx + 1)).value ELSE NoneInt,
         total |->
            IF FilledCell(total_row, col_idx) /\ tm.matched
            THEN tm.total ELSE NoneInt,
         grade |->
            IF ~FilledCell(total_row, col_idx) THEN <<>>
            ELSE IF tm.matched THEN tm.grade
            ELSE IF total_str \in AdminTokens THEN total_str
            ELSE <<>>]

NotSecured == {<<"F">>, <<"A">>, <<"R","L">>, <<"C">>, <<"D">>}

\* lines 229-232
credits_secured_of(subjects) ==
    LET secured == SelectSeq(subjects, LAMBDA s : /\ s.grade # <<>>
                                                  /\ s.grade \notin NotSecured)
    IN  SumSeq([k \in 1..Len(secured) |-> secured[k].credits])

\* A plausible slip: col_idx moves on by one column per paper.
_parse_student_row_one_column(table, start_idx, ctx) ==
    LET row == RowAt(table, start_idx)
        student_cell == IF Len(row) > 1 /\ TruthySeq(CellAt(row, 1))
                        THEN CellAt(row, 1) ELSE <<>>
        lines == Split(student_cell, "\n")
        roll_no == Strip(lines[1])
        name == IF Len(lines) > 1 THEN Strip(lines[2]) ELSE <<>>
        student == StudentResult(roll_no, name, sid_of(lines),
                                 scheme_id_of(lines), ctx.institution,
                                 ctx.programme, ctx.semester, ctx.batch)
        papers == papers_of(row)
        internal_row == IF start_idx + 1 < Len(table)
                        THEN RowAt(table, start_idx + 1) ELSE <<>>
        total_row == IF start_idx + 2 < Len(table)
                     THEN RowAt(table, start_idx + 2) ELSE <<>>
        subjects == [k \in 1..Len(papers) |->
                        subject_of(papers[k], k + 1, internal_row, total_row)]
    IN  IF papers # <<>> /\ (internal_row = NoneRow \/ total_row = NoneRow)
        THEN NoValue
        ELSE [student EXCEPT !.subjects = subjects,
                             !.total_credits_secured =
                                 credits_secured_of(subjects)]

\* _parse_student_row(table, start_idx) under the context ctx; NoValue is
\* the None returned when an exception is caught (len() of a None row)
_parse_student_row(table, start_idx, ctx) ==
    LET row == RowAt(table, start_idx)
        student_cell == IF Len(row) > 1 /\ TruthySeq(CellAt(row, 1))
                        THEN CellAt(row, 1) ELSE <<>>
        lines == Split(student_cell, "\n")
        roll_no == Strip(lines[1])
        name == IF Len(lines) > 1 THEN Strip(lines[2]) ELSE <<>>
        student == StudentResult(roll_no, name, sid_of(lines),
                                 scheme_id_of(lines), ctx.institution,
                                 ctx.programme, ctx.semester, ctx.batch)
        papers == papers_of(row)
        internal_row == IF start_idx + 1 < Len(table)
                        THEN RowAt(table, start_idx + 1) ELSE <<>>
        total_row == IF start_idx + 2 < Len(table)
                     THEN RowAt(table, start_idx + 2) ELSE <<>>
        subjects == [k \in 1..Len(papers) |->
                        subject_of(papers[k], 2 * k, internal_row, total_row)]
    IN  IF papers # <<>> /\ (internal_row = NoneRow \/ total_row = NoneRow)
        THEN NoValue
        ELSE [student EXCEPT !.subjects = subjects,
                             !.total_credits_secured =
                                 credits_secured_of(subjects)]

\* lines 131-138: row i opens a student block
IsStudentRow(row) ==
    /\ ~EmptyRow(row)
    /\ Len(row) >= 3
    /\ TruthySeq(CellAt(row, 1))
    /\ Contains(CellAt(row, 1), <<"\n">>)

\* lines 130-142 with the check of student.roll_no left out
student_table_row_any_roll(res, table, i, ctx) ==
    IF /\ IsStudentRow(RowAt(table, i))
       /\ _parse_student_row(table, i, ctx) # NoValue
    THEN Append(res, _parse_student_row(table, i, ctx)) ELSE res

\* A plausible slip: a block is taken only when the table still has its marks
\* row and its totals row.
student_table_row_whole_blocks(res, table, i, ctx) ==
    IF /\ IsStudentRow(RowAt(table, i))
       /\ i + 2 < Len(table)
       /\ _parse_student_row(table, i, ctx) # NoValue
       /\ _parse_student_row(table, i, ctx).roll_no # <<>>
    THEN Append(res, _parse_student_row(table, i, ctx)) ELSE res

\* lines 130-142: one turn of the while loop, at row i
student_table_row(res, table, i, ctx) ==
    IF /\ IsStudentRow(RowAt(table, i))
       /\ _parse_student_row(table, i, ctx) # NoValue
       /\ _parse_student_row(table, i, ctx).roll_no # <<>>
    THEN Append(res, _parse_student_row(table, i, ctx)) ELSE res

\* A plausible slip: the exception of a block ends the scan of its table.
RECURSIVE parse_student_table_aborting(_, _, _, _)
parse_student_table_aborting(res, table, i, ctx) ==
    IF i >= Len(table) THEN res
    ELSE IF /\ IsStudentRow(RowAt(table, i))
            /\ _parse_student_row(table, i, ctx) = NoValue
    THEN res
    ELSE parse_student_table_aborting(student_table_row(res, table, i, ctx),
                                      table, i + 1, ctx)

\* the while loop of _parse_student_table from row i on
RECURSIVE parse_student_table_from(_, _, _, _)
parse_student_table_from(res, table, i, ctx) ==
    IF i >= Len(table) THEN res
    ELSE parse_student_table_from(student_table_row(res, table, i, ctx),
                                  table, i + 1, ctx)

\* _parse_student_table(table): self.results afterwards
_parse_student_table(res, table, ctx) ==
    parse_student_table_from(res, table, 1, ctx)

RollNoHeader == <<"R","o","l","l"," ","n","o">>

InstitutionHeader == <<"I","n","s","t","i","t","u","t","i","o","n">>

\* lines 90-100: the table is a student table
IsStudentTable(table) ==
    /\ Len(table) >= 2
    /\ ~EmptyRow(RowAt(table, 0))
    /\ LET header == RowAt(table, 0)
           header_str == Join(SelectSeq(header, TruthySeq))
       IN  \/ Contains(header_str, RollNoHeader)
           \/ Contains(header_str, InstitutionHeader)

\* A plausible slip: a field the page does not name is cleared.
_extract_context_clearing(ctx, text) ==
    [programme |-> IF text.prog_match # NoneSeq THEN Strip(text.prog_match)
                   ELSE <<>>,
     semester |-> IF text.sem_match # NoneSeq THEN text.sem_match ELSE <<>>,
     batch |-> IF text.batch_match # NoneSeq THEN text.batch_match ELSE <<>>,
     institution |-> IF text.inst_match # NoneSeq THEN Strip(text.inst_match)
                     ELSE <<>>]

\* _extract_context(text): each field is replaced when its search matches
_extract_context(ctx, text) ==
    [programme |-> IF text.prog_match # NoneSeq THEN Strip(text.prog_match)
                   ELSE ctx.programme,
     semester |-> IF text.sem_match # NoneSeq THEN text.sem_match
                  ELSE ctx.semester,
     batch |-> IF text.batch_match # NoneSeq THEN text.batch_match
               ELSE ctx.batch,
     institution |-> IF text.inst_match # NoneSeq THEN Strip(text.inst_match)
                     ELSE ctx.institution]

\* the loop over the tables of a result page, under the new context
RECURSIVE parse_result_tables(_, _, _)
parse_result_tables(res, tables, ctx) ==
    IF tables = <<>> THEN res
    ELSE parse_result_tables(
             IF IsStudentTable(Head(tables))
             THEN _parse_student_table(res, Head(tables), ctx) ELSE res,
             Tail(tables), ctx)

\* _parse_result_page(page, text): self.results afterwards
_parse_result_page(res, page, ctx) ==
    parse_result_tables(res, page.tables, _extract_context(ctx, page.text))

PaperIDHeader == <<"P","a","p","e","r"," ","I","D">>

\* lines 69-80: one row of a subject table
scheme_row(info, row) ==
    IF EmptyRow(row) \/ Len(row) < 4 THEN info
    ELSE LET field(k, default) == IF TruthySeq(CellAt(row, k))
                                  THEN Strip(CellAt(row, k)) ELSE default
             paper_id == field(0, <<>>)
             credits == field(3, <<"0">>)
             entry == [code |-> field(1, <<>>), subject |-> field(2, <<>>),
                       credits |-> IF credits # <<>> /\ IsDigits(credits)
                                   THEN ParseDigits(credits) ELSE 0]
         IN  IF paper_id = <<>> THEN info
             ELSE [p \in DOMAIN info \cup {paper_id} |->
                      IF p = paper_id THEN entry ELSE info[p]]

RECURSIVE scheme_rows(_, _)
scheme_rows(info, rows) ==
    IF rows = <<>> THEN info
    ELSE scheme_rows(scheme_row(info, Head(rows)), Tail(rows))

\* A plausible slip: the header of the table is not looked at.
IsSubjectTable_any_header(table) ==
    /\ Len(table) >= 2
    /\ ~EmptyRow(RowAt(table, 0))

\* lines 62-67: the table is a subject table
IsSubjectTable(table) ==
    /\ Len(table) >= 2
    /\ ~EmptyRow(RowAt(table, 0))
    /\ \E k \in 1..Len(RowAt(table, 0)) :
           /\ RowAt(table, 0)[k] # NoneSeq
           /\ Contains(RowAt(table, 0)[k], PaperIDHeader)

\* _parse_scheme_page(page): self.scheme_info afterwards
RECURSIVE _parse_scheme_page(_, _)
_parse_scheme_page(info, tables) ==
    IF tables = <<>> THEN info
    ELSE _parse_scheme_page(
             IF IsSubjectTable(Head(tables))
             THEN scheme_rows(info, Tail(Head(tables))) ELSE info,
             Tail(tables))

----------------------------------------------------------------------------
(* The exports of the parser *)

\* str(n) for n >= 0
RECURSIVE FormatNat(_)
FormatNat(n) ==
    IF n < 10 THEN <<DigitChars[n + 1]>>
    ELSE FormatNat(n \div 10) \o <<DigitChars[(n % 10) + 1]>>

\* f"{s.total}({s.grade})" if s.total else s.grade
subject_mark(s) ==
    IF TruthyInt(s.total) THEN FormatNat(s.total) \o <<"(">> \o s.grade \o <<")">>
    ELSE s.grade

\* lines 257-260: a later subject of the same paper replaces an earlier one
subject_marks(student) ==
    [p \in {student.subjects[k].paper_id : k \in 1..Len(student.subjects)} |->
        subject_mark(student.subjects[
            Max({k \in 1..Len(student.subjects) :
                    student.subjects[k].paper_id = p})])]

\* lines 262-275: the row of one student, the per-paper columns kept
\* together under "subject_marks"
dataframe_row(student) ==
    [Rank |-> 0, Roll_No |-> student.roll_no, Name |-> student.name,
     SID |-> student.sid, Institution |-> student.institution,
     Programme |-> student.programme, Semester |-> student.semester,
     Batch |-> student.batch, Total_Marks |-> PctTotalMarks(student),
     Max_Marks |-> PctMaxMarks(student),
     Percentage |-> calculate_percentage(student),
     Credits_Secured |-> student.total_credits_secured,
     subject_marks |-> subject_marks(student)]

RemoveAt(s, i) == SubSeq(s, 1, i - 1) \o SubSeq(s, i + 1, Len(s))

\* df.sort_values('Percentage', ascending=False) with the default
\* kind='quicksort', which is not stable: every arrangement of the rows
\* with Percentage non-increasing
RECURSIVE sort_values_descending(_)
sort_values_descending(rows) ==
    IF rows = <<>> THEN {<<>>}
    ELSE LET top == Max({rows[i].Percentage : i \in 1..Len(rows)})
             firsts == {i \in 1..Len(rows) :
                           /\ rows[i].Percentage = top
                           /\ \A j \in 1..(i - 1) : rows[j] # rows[i]}
         IN  UNION {{<<rows[i]>> \o rest :
                        rest \in sort_values_descending(RemoveAt(rows, i))} :
                    i \in firsts}

\* df.insert(0, 'Rank', range(1, len(df) + 1)) numbering from 0
insert_rank_from_zero(rows) ==
    [i \in 1..Len(rows) |-> [rows[i] EXCEPT !.Rank = i - 1]]

\* df.insert(0, 'Rank', range(1, len(df) + 1))
insert_rank(rows) == [i \in 1..Len(rows) |-> [rows[i] EXCEPT !.Rank = i]]

\* to_dataframe(): the frames it can return
to_dataframe(res) ==
    {insert_rank(sorted) :
        sorted \in sort_values_descending(
                       [i \in 1..Len(res) |-> dataframe_row(res[i])])}

\* lines 299-323: the object of one student
json_object(rank, student) ==
    [rank |-> rank, roll_no |-> student.roll_no, name |-> student.name,
     sid |-> student.sid, institution |-> student.institution,
     programme |-> student.programme, semester |-> student.semester,
     batch |-> student.batch, total_marks |-> PctTotalMarks(student),
     max_marks |-> PctMaxMarks(student),
     percentage |-> calculate_percentage(student),
     credits_secured |-> student.total_credits_secured,
     subjects |-> student.subjects]

\* to_json(): sorted() is stable, also with reverse=True
to_json(res) ==
    LET keys == [i \in 1..Len(res) |-> calculate_percentage(res[i])]
        perm == PySort(keys, TRUE)
    IN  [rank \in 1..Len(res) |-> json_object(rank, res[perm[rank]])]

----------------------------------------------------------------------------
(* The pages handed to the parser.  The text of a page is held as what the  *)
(* code asks of it: whether it holds each of the two page markers and       *)
(* group(1) of each of the four searches of _extract_context (NoneSeq when  *)
(* the search finds nothing).                                               *)

MaxPages == 2

MaxRows == 3

MaxRuns == 2

\* the exports are followed for collections of at most this many records
MaxExported == 4

Text(scheme, result, prog_match, sem_match, batch_match, inst_match) ==
    [scheme |-> scheme, result |-> result, prog_match |-> prog_match,
     sem_match |-> sem_match, batch_match |-> batch_match,
     inst_match |-> inst_match]

Page(text, tables) == [text |-> text, tables |-> tables]

Paper1 == <<"0","1","5","1","0","1","(","4",")">>

Paper2 == <<"0","1","5","1","0","2","(","3",")">>

HeaderRow == <<<<"S",".","N","o">>,
               <<"R","o","l","l"," ","n","o",".","/","N","a","m","e">>>>

\* 059 / ASHA / SID: 7, two papers in columns 2 and 4
RowStudentA ==
    <<<<"1">>,
      <<"0","5","9","\n","A","S","H","A","\n","S","I","D",":"," ","7">>,
      Paper1, NoneSeq, Paper2>>

\* 060 / BALA, one paper
RowStudentB == <<<<"2">>, <<"0","6","0","\n","B","A","L","A">>, Paper1>>

\* 061 / CHAND / SchemeID: 9, one paper
RowStudentC ==
    <<<<"3">>,
      <<"0","6","1","\n","C","H","A","N","D","\n",
        "S","c","h","e","m","e","I","D",":"," ","9">>,
      Paper1>>

\* a student cell whose first line is blank
RowBlankRoll == <<<<"4">>, <<" ","\n","X">>, Paper1>>

\* a student cell without a line break
RowNoBreak == <<<<"5">>, <<"0","5","9">>, Paper1>>

\* internal 30, external 45; internal "x", external 50
RowInternal ==
    <<NoneSeq, NoneSeq, <<"3","0">>, <<"4","5">>, <<"x">>, <<"5","0">>>>

\* 75(A) and 45(RL)
RowTotalNumeric ==
    <<NoneSeq, NoneSeq, <<"7","5","(","A",")">>, NoneSeq,
      <<"4","5","(","R","L",")">>>>

\* a bare RL and 0(F)
RowTotalAdmin ==
    <<NoneSeq, NoneSeq, <<"R","L">>, NoneSeq, <<"0","(","F",")">>>>

\* 062 / DEV in a row of two cells
RowTwoCells == <<<<"6">>, <<"0","6","2","\n","D","E","V">>>>

BlockRows ==
    {RowStudentA, RowBlankRoll, RowNoBreak, RowTwoCells, RowInternal,
     RowTotalNumeric, RowTotalAdmin, NoneRow}

FullText ==
    Text(FALSE, TRUE, <<"B","T","E","C","H"," ">>, <<"0","1">>,
         <<"2","0","2","4">>, <<"U","S","A","R">>)

\* a result page that names the semester only
SemesterText == Text(FALSE, TRUE, NoneSeq, <<"0","2">>, NoneSeq, NoneSeq)

BareText == Text(FALSE, TRUE, NoneSeq, NoneSeq, NoneSeq, NoneSeq)

SchemeText == Text(TRUE, FALSE, NoneSeq, NoneSeq, NoneSeq, NoneSeq)

\* both markers: parse() takes the page as a scheme page
SchemeAndResultText ==
    Text(TRUE, TRUE, NoneSeq, <<"0","3">>, NoneSeq, NoneSeq)

OtherText == Text(FALSE, FALSE, NoneSeq, <<"0","4">>, NoneSeq, NoneSeq)

SchemeHeader ==
    <<<<"P","a","p","e","r"," ","I","D">>, <<"C","o","d","e">>,
      <<"S","u","b","j","e","c","t">>, <<"C","r","e","d","i","t","s">>>>

SchemeTable1 ==
    <<SchemeHeader,
      <<<<"0","1","5","1","0","1">>, <<"E","S","1","0","1">>,
        <<"M","A","T","H","S">>, <<"4">>>>,
      <<NoneSeq, <<"E","S","1","0","3">>, NoneSeq, <<"2">>>>,
      <<<<"0","1","5","1","0","2">>, <<"E","S","1","0","2">>,
        <<"P","H","Y","S","I","C","S">>, <<" ","3"," ">>>>>>

\* 015101 again, with credits that are not digits, and a row of three cells
SchemeTable2 ==
    <<SchemeHeader,
      <<<<"0","1","5","1","0","1">>, <<"E","S","1","0","1">>,
        <<"M","A","T","H","S">>, <<"x">>>>,
      <<<<"0","1","5","1","0","3">>, <<"E","S","1","0","4">>,
        <<"C","H","E","M">>>>>>

TableA == <<HeaderRow, RowStudentA, RowInternal, RowTotalNumeric>>

\* BALA and CHAND with the same marks
TableBC ==
    <<HeaderRow, RowStudentB, RowInternal, RowTotalNumeric,
      RowStudentC, RowInternal, RowTotalNumeric>>

\* 063 / EVA, two papers in the neighbouring columns 2 and 3
RowStudentD ==
    <<<<"7">>, <<"0","6","3","\n","E","V","A">>, Paper1, Paper2>>

\* ASHA, then BALA whose marks row is None, then CHAND
TableNoneRow ==
    <<HeaderRow, RowStudentA, RowInternal, RowTotalNumeric,
      RowStudentB, NoneRow, RowTotalNumeric,
      RowStudentC, RowInternal, RowTotalAdmin>>

TableD == <<HeaderRow, RowStudentD, RowInternal, RowTotalNumeric>>

PageUniverse ==
    {Page(SchemeText, <<SchemeTable1>>),
     Page(SchemeAndResultText, <<SchemeTable2, TableA>>),
     Page(FullText, <<TableA>>),
     Page(SemesterText, <<TableBC>>),
     Page(BareText, <<SchemeTable1, TableA>>),
     Page(BareText, <<TableNoneRow, TableD>>),
     Page(OtherText, <<TableA>>)}

TableInputs == {<<HeaderRow>> \o rows : rows \in SeqsUpTo(BlockRows, MaxRows)}

----------------------------------------------------------------------------
(* The parser object: constructed on a PDF, parse() walks the pages, and    *)
(* the exports read self.results.  parse() and the exports run one after    *)
(* the other on the one thread of the script.                               *)

\* self.current_* as the context of a student row
Context ==
    [institution |-> self_current_institution,
     programme |-> self_current_programme,
     semester |-> self_current_semester, batch |-> self_current_batch]

\* BTechResultParser.__init__
Constructed ==
    /\ parser_pc = "constructed"
    /\ page_num = 0
    /\ self_results = <<>>
    /\ self_current_institution = <<>>
    /\ self_current_programme = <<>>
    /\ self_current_semester = <<>>
    /\ self_current_batch = <<>>
    /\ self_scheme_info = <<>>
    /\ returned = <<>>
    /\ exported = NoValue

InitParser ==
    /\ pdf \in SeqsUpTo(PageUniverse, MaxPages)
    /\ Constructed
    /\ STUDENTS = <<>>
    /\ request = NoValue
    /\ response = NoValue
    /\ sgpa_student = NoValue
    /\ sgpa_result = NoValue
    /\ pct_student = NoValue
    /\ pct_result = NoValue
    /\ roll_input = NoValue
    /\ roll_result = NoValue
    /\ app = NoValue
    /\ STUDENT_DATA = NoValue
    /\ json_file = NoValue

\* a PDF of one result page with one student table
InitBlocks ==
    /\ pdf \in {<<Page(FullText, <<table>>)>> : table \in TableInputs}
    /\ Constructed
    /\ STUDENTS = <<>>
    /\ request = NoValue
    /\ response = NoValue
    /\ sgpa_student = NoValue
    /\ sgpa_result = NoValue
    /\ pct_student = NoValue
    /\ pct_result = NoValue
    /\ roll_input = NoValue
    /\ roll_result = NoValue
    /\ app = NoValue
    /\ STUDENT_DATA = NoValue
    /\ json_file = NoValue

\* parse() is called: the loop starts at the first page
StartParse ==
    /\ parser_pc \in {"constructed", "returned"}
    /\ Len(returned) < MaxRuns
    /\ parser_pc' = "parsing"
    /\ page_num' = 0
    /\ UNCHANGED <<pdf, self_vars, returned, exported, api_vars,
                   sgpa_vars, pct_vars, roll_vars, load_vars>>

\* lines 47-54: one turn of the loop over the pages
ProcessPage ==
    /\ parser_pc = "parsing"
    /\ page_num < Len(pdf)
    /\ LET page == pdf[page_num + 1]
           ctx == _extract_context(Context, page.text)
       IN  IF page.text.scheme
           THEN /\ self_scheme_info' =
                       _parse_scheme_page(self_scheme_info, page.tables)
                /\ UNCHANGED <<self_results, self_current_institution,
                               self_current_programme, self_current_semester,
                               self_current_batch>>
           ELSE IF page.text.result
           THEN /\ self_current_institution' = ctx.institution
                /\ self_current_programme' = ctx.programme
                /\ self_current_semester' = ctx.semester
                /\ self_current_batch' = ctx.batch
                /\ self_results' = _parse_result_page(self_results, page,
                                                      Context)
                /\ UNCHANGED self_scheme_info
           ELSE UNCHANGED self_vars
    /\ page_num' = page_num + 1
    /\ UNCHANGED <<pdf, parser_pc, returned, exported, api_vars, sgpa_vars,
                   pct_vars, roll_vars, load_vars>>

\* line 56: return self.results
ReturnResults ==
    /\ parser_pc = "parsing"
    /\ page_num = Len(pdf)
    /\ parser_pc' = "returned"
    /\ returned' = Append(returned, self_results)
    /\ UNCHANGED <<pdf, page_num, self_vars, exported, api_vars, sgpa_vars,
                   pct_vars, roll_vars, load_vars>>

\* to_dataframe(), as to_csv() writes it
ToDataframe ==
    /\ parser_pc \in {"constructed", "returned"}
    /\ Len(self_results) <= MaxExported
    /\ \E df \in to_dataframe(self_results) :
           exported' = [form |-> "dataframe", rows |-> df]
    /\ UNCHANGED <<pdf, parser_pc, page_num, self_vars, returned, api_vars,
                   sgpa_vars, pct_vars, roll_vars, load_vars>>

\* to_json()
ToJson ==
    /\ parser_pc \in {"constructed", "returned"}
    /\ Len(self_results) <= MaxExported
    /\ exported' = [form |-> "json", rows |-> to_json(self_results)]
    /\ UNCHANGED <<pdf, parser_pc, page_num, self_vars, returned, api_vars,
                   sgpa_vars, pct_vars, roll_vars, load_vars>>

NextParser ==
    StartParse \/ ProcessPage \/ ReturnResults \/ ToDataframe \/ ToJson

SpecParser == InitParser /\ [][NextParser]_vars

SpecBlocks == InitBlocks /\ [][NextParser]_vars

----------------------------------------------------------------------------
(* Properties of the parser, stated on self.results, on the values parse()  *)
(* returned and on the rows of the last export                              *)

\* the student table of the one-page PDFs of SpecBlocks
TheTable == pdf[1].tables[1]

\* row i of the table opens a block whose first identity line is blank
BlankRollBlock(table, i) ==
    /\ IsStudentRow(RowAt(table, i))
    /\ Strip(Split(CellAt(RowAt(table, i), 1), "\n")[1]) = <<>>

\* C15: at every point of the processing, no record of the result
\* collection has an empty roll_no; a block whose first identity line is
\* empty or blank leaves no record.
C15_NoEmptyRollNo ==
    \A k \in 1..Len(self_results) : self_results[k].roll_no # <<>>

C15_Witness ==
    /\ parser_pc = "returned"
    /\ \E i \in 1..(Len(TheTable) - 1) : BlankRollBlock(TheTable, i)
    /\ \E i \in 1..(Len(TheTable) - 1) :
           IsStudentRow(RowAt(TheTable, i)) /\ ~BlankRollBlock(TheTable, i)
    /\ Len(self_results) = 1

\* parse() runs for the first time, or has returned once
FirstRun ==
    \/ returned = <<>>
    \/ Len(returned) = 1 /\ parser_pc = "returned"

SameKey(a, b) ==
    a.roll_no = b.roll_no /\ a.semester = b.semester /\ a.batch = b.batch

\* C16: during and after one run of parse(), no two records of the result
\* collection have the same roll_no, semester and batch, whatever blocks
\* the pages repeat.
C16_NoDuplicateRecords ==
    FirstRun =>
        \A i, j \in 1..Len(self_results) :
            i # j => ~SameKey(self_results[i], self_results[j])

\* the numerically graded values of the specification
NumericGrades ==
    {<<"O">>, <<"A","+">>, <<"A">>, <<"B","+">>, <<"B">>, <<"C","+">>,
     <<"C">>, <<"D">>, <<"F">>, <<"A","B">>}

\* its administrative markers
AdministrativeMarkers == {<<"A">>, <<"R","L">>, <<"C">>, <<"D">>, <<"A","P">>}

\* C17: in every emitted subject, total is populated if and only if the
\* grade is a numerically graded value, and a subject with an
\* administrative marker has no total, internal or external marks.  A, C
\* and D are in both vocabularies: they count as numerically graded when
\* they come with a total and as markers when they come bare, so that only
\* the grades of one vocabulary can break the statement.
C17_TotalIffNumericGrade ==
    \A k \in 1..Len(self_results) :
        \A n \in 1..Len(self_results[k].subjects) :
            LET s == self_results[k].subjects[n]
            IN  /\ s.total # NoneInt => s.grade \in NumericGrades
                /\ s.grade \in NumericGrades \ AdministrativeMarkers =>
                       s.total # NoneInt
                /\ s.grade \in AdministrativeMarkers \ NumericGrades =>
                       /\ s.total = NoneInt
                       /\ s.internal = NoneInt
                       /\ s.external = NoneInt

\* C18: every later run of parse() over the same pages returns the
\* collection the first run returned.
C18_SecondRunSameCollection ==
    \A k \in 2..Len(returned) : returned[k] = returned[1]

RankOf(row) == IF exported.form = "json" THEN row.rank ELSE row.Rank

PercentageOf(row) ==
    IF exported.form = "json" THEN row.percentage ELSE row.Percentage

\* C19: in both exported forms row i has rank i, and the percentage does
\* not increase from a row to the next.
C19_ExportInRankOrder ==
    exported # NoValue =>
        /\ \A i \in 1..Len(exported.rows) : RankOf(exported.rows[i]) = i
        /\ \A i \in 1..(Len(exported.rows) - 1) :
               PercentageOf(exported.rows[i])
                   >= PercentageOf(exported.rows[i + 1])

\* a frame of three rows, the record parsed first (60.0) ranked last
C19_Witness ==
    /\ exported # NoValue
    /\ exported.form = "dataframe"
    /\ Len(exported.rows) = 3
    /\ exported.rows[1].Percentage = exported.rows[2].Percentage
    /\ exported.rows[2].Percentage > exported.rows[3].Percentage
    /\ exported.rows[3].Roll_No = self_results[1].roll_no

----------------------------------------------------------------------------
(* Loading of the record collection and the handlers that query it.         *)
(* main.py loads once, when the module is imported; api/index.py starts     *)
(* with STUDENTS = [] and calls load_students() in every handler.  A data   *)
(* source is held as a record: whether it is there and what it holds.       *)

MaxLoaded == 2

\* main.py:17-40, load_data()
load_data(embedded, file) ==
    IF embedded.importable THEN embedded.data
    ELSE IF file.exists THEN file.data
    ELSE <<>>

\* index.py:22-42, load_students(): the value returned, which is also the
\* value of the global STUDENTS afterwards
load_students(cached, embedded) ==
    IF cached # <<>> THEN cached
    ELSE IF embedded.importable THEN embedded.data
    ELSE <<>>

\* the order of sorted() on the semester and batch strings of the model
StringOrder == <<"01", "02", "2023", "2024">>

\* sorted(set(s.get(key, "") for s in students if s.get(key)))
SortedValues(students, key) ==
    SelectSeq(StringOrder,
              LAMBDA v : \E i \in 1..Len(students) : students[i][key] = v)

FilterBranches ==
    <<[code |-> Code519, short |-> BRANCH_MAP[Code519].short,
       name |-> BRANCH_MAP[Code519].name],
      [code |-> Code516, short |-> BRANCH_MAP[Code516].short,
       name |-> BRANCH_MAP[Code516].name],
      [code |-> Code520, short |-> BRANCH_MAP[Code520].short,
       name |-> BRANCH_MAP[Code520].name],
      [code |-> Code517, short |-> BRANCH_MAP[Code517].short,
       name |-> BRANCH_MAP[Code517].name]>>

\* main.py:88-106, get_filters
get_filters_main(students) ==
    [kind |-> "filters", branches |-> FilterBranches,
     semesters |-> SortedValues(students, "semester"),
     batches |-> ReverseSeq(SortedValues(students, "batch")),
     total_students |-> Len(students)]

\* index.py:83-99, get_filters
get_filters_api(students) ==
    [kind |-> "filters", branches |-> FilterBranches,
     semesters |->
        IF SortedValues(students, "semester") # <<>>
        THEN SortedValues(students, "semester")
        ELSE <<"01", "02", "03", "04", "05", "06", "07", "08">>,
     batches |->
        IF SortedValues(students, "batch") # <<>>
        THEN ReverseSeq(SortedValues(students, "batch"))
        ELSE <<"2024", "2023", "2022", "2021">>,
     total_students |-> Len(students)]

HTTPException(status_code, detail) ==
    [kind |-> "HTTPException", status_code |-> status_code, detail |-> detail]

\* the first student of the collection with this roll number
StudentFound(students, roll_no) ==
    students[Min({i \in 1..Len(students) : students[i].roll_no = roll_no})]

\* main.py:173-199, get_student
get_student_main(students, roll_no) ==
    IF \E i \in 1..Len(students) : students[i].roll_no = roll_no
    THEN LET student == StudentFound(students, roll_no)
         IN  [kind |-> "student", roll_no |-> roll_no, name |-> student.name,
              sid |-> "",
              branch |-> get_branch_from_roll_main(roll_no).short,
              branch_name |-> get_branch_from_roll_main(roll_no).name,
              semester |-> student.semester, batch |-> student.batch,
              sgpa |-> calculate_sgpa_main(student),
              percentage |-> Percentage(student),
              credits |-> student.credits_secured,
              subjects |-> student.subjects]
    ELSE HTTPException(404, "Student not found")

\* index.py:148-171, get_student
get_student_api(students, roll_no) ==
    IF \E i \in 1..Len(students) : students[i].roll_no = roll_no
    THEN LET student == StudentFound(students, roll_no)
         IN  [kind |-> "student", roll_no |-> roll_no, name |-> student.name,
              branch |-> get_branch_from_roll_api(roll_no).short,
              branch_name |-> get_branch_from_roll_api(roll_no).name,
              semester |-> student.semester, batch |-> student.batch,
              sgpa |-> calculate_sgpa_api(student),
              percentage |-> Percentage(student),
              credits |-> student.credits_secured,
              subjects |-> student.subjects]
    ELSE HTTPException(404, "Student not found")

\* main.py:214-216 and index.py:77-80, health
health(students) == [kind |-> "health", status |-> "ok", students |-> Len(students)]

LoadUniverse == {StuA, StuC}

DataSources ==
    {[importable |-> FALSE, exists |-> FALSE, data |-> <<>>]} \cup
    {[importable |-> TRUE, exists |-> TRUE, data |-> d] :
        d \in SeqsUpTo(LoadUniverse, MaxLoaded)}

RollTokens == {StuA.roll_no, <<"9">>}

InitLoad ==
    /\ app \in {"main", "api"}
    /\ STUDENT_DATA \in DataSources
    /\ json_file \in DataSources
    /\ STUDENTS = IF app = "main" THEN load_data(STUDENT_DATA, json_file)
                  ELSE <<>>
    /\ request = NoValue
    /\ response = NoValue
    /\ sgpa_student = NoValue
    /\ sgpa_result = NoValue
    /\ pct_student = NoValue
    /\ pct_result = NoValue
    /\ roll_input = NoValue
    /\ roll_result = NoValue
    /\ pdf = NoValue
    /\ parser_pc = NoValue
    /\ page_num = NoValue
    /\ self_results = NoValue
    /\ self_current_institution = NoValue
    /\ self_current_programme = NoValue
    /\ self_current_semester = NoValue
    /\ self_current_batch = NoValue
    /\ self_scheme_info = NoValue
    /\ returned = NoValue
    /\ exported = NoValue

\* GET /api/ranklist of main.py on the collection loaded at import
MainGetRanklist ==
    /\ app = "main"
    /\ GetRanklistMain

\* A plausible slip: the sort applied to the loaded list itself (by SGPA, in
\* the requested direction) on the way to the response.
ApiGetRanklist_sorting_in_place ==
    \E branch \in BranchTokens, semester \in SemesterTokens,
       batch \in BatchTokens, sort_by \in SortByTokens, order \in OrderTokens :
        LET students == load_students(STUDENTS, STUDENT_DATA)
            keys == [i \in 1..Len(students) |-> calculate_sgpa_api(students[i])]
            perm == PySort(keys, Lower(order) = <<"d","e","s","c">>)
        IN  /\ app = "api"
            /\ response = NoValue
            /\ STUDENTS' = [i \in 1..Len(perm) |-> students[perm[i]]]
            /\ request' = Request("api", branch, semester, batch, sort_by, order)
            /\ response' = get_ranklist_api(STUDENTS', branch, semester, batch,
                                            sort_by, order)
            /\ UNCHANGED <<sgpa_vars, pct_vars, roll_vars, parser_vars, load_vars>>

\* GET /api/ranklist of api/index.py: load_students(), then the query
ApiGetRanklist ==
    \E branch \in BranchTokens, semester \in SemesterTokens,
       batch \in BatchTokens, sort_by \in SortByTokens, order \in OrderTokens :
        /\ app = "api"
        /\ response = NoValue
        /\ STUDENTS' = load_students(STUDENTS, STUDENT_DATA)
        /\ request' = Request("api", branch, semester, batch, sort_by, order)
        /\ response' = get_ranklist_api(STUDENTS', branch, semester, batch,
                                        sort_by, order)
        /\ UNCHANGED <<sgpa_vars, pct_vars, roll_vars, parser_vars, load_vars>>

\* GET /api/filters
GetFilters ==
    /\ response = NoValue
    /\ STUDENTS' = IF app = "main" THEN STUDENTS
                   ELSE load_students(STUDENTS, STUDENT_DATA)
    /\ request' = [endpoint |-> app, path |-> "/api/filters"]
    /\ response' = IF app = "main" THEN get_filters_main(STUDENTS')
                   ELSE get_filters_api(STUDENTS')
    /\ UNCHANGED <<sgpa_vars, pct_vars, roll_vars, parser_vars, load_vars>>

\* GET /api/student/{roll_no}
GetStudent ==
    \E roll_no \in RollTokens :
        /\ response = NoValue
        /\ STUDENTS' = IF app = "main" THEN STUDENTS
                       ELSE load_students(STUDENTS, STUDENT_DATA)
        /\ request' = [endpoint |-> app, path |-> "/api/student",
                       roll_no |-> roll_no]
        /\ response' = IF app = "main" THEN get_student_main(STUDENTS', roll_no)
                       ELSE get_student_api(STUDENTS', roll_no)
        /\ UNCHANGED <<sgpa_vars, pct_vars, roll_vars, parser_vars, load_vars>>

\* GET /api/health
Health ==
    /\ response = NoValue
    /\ STUDENTS' = IF app = "main" THEN STUDENTS
                   ELSE load_students(STUDENTS, STUDENT_DATA)
    /\ request' = [endpoint |-> app, path |-> "/api/health"]
    /\ response' = health(STUDENTS')
    /\ UNCHANGED <<sgpa_vars, pct_vars, roll_vars, parser_vars, load_vars>>

NextLoad ==
    \/ MainGetRanklist
    \/ ApiGetRanklist
    \/ GetFilters
    \/ GetStudent
    \/ Health
    \/ ReturnResponse

SpecLoad == InitLoad /\ [][NextLoad]_vars

NoDataSource ==
    /\ ~STUDENT_DATA.importable
    /\ app = "main" => ~json_file.exists

EmptyResultSet(r) ==
    \/ r.kind = "ranklist" /\ r.total = 0 /\ r.ranklist = <<>>
    \/ r.kind = "filters" /\ r.semesters = <<>> /\ r.batches = <<>>
                          /\ r.total_students = 0
    \/ r.kind = "health" /\ r.students = 0

Flagged(r) ==
    \/ "data_loaded" \in DOMAIN r /\ r["data_loaded"] = FALSE
    \/ "error" \in DOMAIN r

\* C20: while no data source is there, every query handler returns, without
\* raising, an empty result set that carries data_loaded = false or an
\* error message.
C20_NoDataIsFlagged ==
    NoDataSource /\ response # NoValue =>
        /\ response.kind # "HTTPException"
        /\ EmptyResultSet(response)
        /\ Flagged(response)

----------------------------------------------------------------------------
(* C21: the handlers leave the loaded collection alone *)

\* The collection as the load produced it: main.py loads when the module is
\* imported, api/index.py at the first request that finds a source.
LoadedCollection ==
    IF app = "main" THEN load_data(STUDENT_DATA, json_file)
    ELSE load_students(<<>>, STUDENT_DATA)

\* api/index.py has not loaded anything yet
NotYetLoaded == app = "api" /\ STUDENTS = <<>>

\* the response the handler gives to the request on the collection as loaded
ResponseOnLoaded ==
    IF response.kind = "ranklist"
    THEN IF app = "main"
         THEN get_ranklist_main(LoadedCollection, request.branch,
                                request.semester, request.batch,
                                request.sort_by, request.order)
         ELSE get_ranklist_api(LoadedCollection, request.branch,
                               request.semester, request.batch,
                               request.sort_by, request.order)
    ELSE IF app = "main"
         THEN get_student_main(LoadedCollection, request.roll_no)
         ELSE get_student_api(LoadedCollection, request.roll_no)

\* C21: after any sequence of requests the collection holds the records it
\* was loaded with, in the same order and with the same field values, and a
\* get_ranklist or get_student request gets the response it would get on the
\* freshly loaded collection, so that a repeated request returns the same
\* response.
C21_CollectionNeverModified ==
    /\ ~NotYetLoaded => STUDENTS = LoadedCollection
    /\ response # NoValue
       /\ response.kind \in {"ranklist", "student", "HTTPException"}
       => response = ResponseOnLoaded

\* a ranklist that puts the second record of a two-record collection first
\* has been returned
C21_Witness ==
    /\ Len(STUDENTS) = 2
    /\ response # NoValue
    /\ response.kind = "ranklist"
    /\ response.total = 2
    /\ response.ranklist[1].pos = 2

----------------------------------------------------------------------------
(* C22: the context of a result page *)

Fields == {"programme", "semester", "batch", "institution"}

\* parse() reads the page as a result page
ReadAsResultPage(page) == ~page.text.scheme /\ page.text.result

\* the labelled field is in the text of the page
HasField(page, f) ==
    CASE f = "programme" -> page.text.prog_match # NoneSeq
      [] f = "semester" -> page.text.sem_match # NoneSeq
      [] f = "batch" -> page.text.batch_match # NoneSeq
      [] f = "institution" -> page.text.inst_match # NoneSeq

\* the value of the labelled field in the text of the page
FieldOf(page, f) ==
    CASE f = "programme" -> Strip(page.text.prog_match)
      [] f = "semester" -> page.text.sem_match
      [] f = "batch" -> page.text.batch_match
      [] f = "institution" -> Strip(page.text.inst_match)

\* The value of field f on the nearest page, going back from page n of the
\* running pass and then through the pass before it, among the pages of
\* every kind (any_page) or among the pages read as result pages; empty when
\* there is no such page.
NearestValue(f, n, any_page) ==
    LET counts(k) == HasField(pdf[k], f)
                     /\ (any_page \/ ReadAsResultPage(pdf[k]))
        here == {k \in 1..n : counts(k)}
        before == IF returned = <<>> THEN {}
                  ELSE {k \in 1..Len(pdf) : counts(k)}
    IN  IF here # {} THEN FieldOf(pdf[Max(here)], f)
        ELSE IF before # {} THEN FieldOf(pdf[Max(before)], f)
        ELSE <<>>

\* the step reads a result page, and every record it adds carries, field by
\* field, the nearest value
RecordsCarryNearest(any_page) ==
    /\ parser_pc = "parsing"
    /\ page_num' = page_num + 1
    /\ ReadAsResultPage(pdf[page_num'])
    => \A k \in (Len(self_results) + 1)..Len(self_results') :
           \A f \in Fields :
               self_results'[k][f] = NearestValue(f, page_num', any_page)

----------------------------------------------------------------------------
(* C23: which rows open a student block *)

\* the identity cell (column 1) of the row is a non-empty string with a line
\* break in it
IdentityCellOpensBlock(row) ==
    /\ row # NoneRow
    /\ Len(row) >= 2
    /\ CellAt(row, 1) # NoneSeq
    /\ CellAt(row, 1) # <<>>
    /\ Contains(CellAt(row, 1), <<"\n">>)

\* the first line of the identity cell of the row, stripped
FirstIdentityLine(row) == Strip(Split(CellAt(row, 1), "\n")[1])

\* the rows i + 1 and i + 2, where the table has them, are rows of cells
FollowingRowsAreRows(table, i) ==
    \A j \in {i + 1, i + 2} : j < Len(table) => RowAt(table, j) # NoneRow

\* C23: a data row is taken as the start of a student block if and only if
\* its identity cell is a non-empty string that contains a line break.  On
\* the records of the first run: every such row whose first identity line is
\* not blank and whose following rows are rows of cells has left a record
\* with its roll number, and every record has the roll number of such a row.
C23_LineBreakAloneOpensBlock ==
    parser_pc = "returned" /\ Len(returned) = 1 =>
        /\ \A i \in 1..(Len(TheTable) - 1) :
               /\ IdentityCellOpensBlock(RowAt(TheTable, i))
               /\ FirstIdentityLine(RowAt(TheTable, i)) # <<>>
               /\ FollowingRowsAreRows(TheTable, i)
               => \E k \in 1..Len(self_results) :
                      self_results[k].roll_no =
                          FirstIdentityLine(RowAt(TheTable, i))
        /\ \A k \in 1..Len(self_results) :
               \E i \in 1..(Len(TheTable) - 1) :
                   /\ IdentityCellOpensBlock(RowAt(TheTable, i))
                   /\ self_results[k].roll_no =
                          FirstIdentityLine(RowAt(TheTable, i))

----------------------------------------------------------------------------
(* C24: the columns the marks of a paper are read from *)

\* the row at index j of the table, empty when the table ends before it
RowOrEmpty(table, j) == IF j < Len(table) THEN RowAt(table, j) ELSE <<>>

\* the integer in column c of the row, None when there is no such cell or
\* the cell is not an integer
MarkAt(row, c) ==
    IF c < Len(row) /\ TruthySeq(CellAt(row, c)) /\ int(CellAt(row, c)).ok
    THEN int(CellAt(row, c)).value ELSE NoneInt

\* the total in column c of the row, None when the cell is not total(grade)
TotalAt(row, c) ==
    IF c < Len(row) /\ TruthySeq(CellAt(row, c))
       /\ total_match(Strip(CellAt(row, c))).matched
    THEN total_match(Strip(CellAt(row, c))).total ELSE NoneInt

\* the paper identifiers of row 0 of the block, in the order of the row
PaperIdsOf(row) == [k \in 1..Len(papers_of(row)) |-> papers_of(row)[k].paper_id]

\* row i of the table opens a block, and the record is made of it with the
\* k-th subject read from columns 2k and 2k+1 of row i+1 and column 2k of
\* row i+2
ReadInLockStep(record, table, i) ==
    /\ IdentityCellOpensBlock(RowAt(table, i))
    /\ record.roll_no = FirstIdentityLine(RowAt(table, i))
    /\ LET ids == PaperIdsOf(RowAt(table, i))
           marks == RowOrEmpty(table, i + 1)
           totals == RowOrEmpty(table, i + 2)
       IN  /\ Len(record.subjects) = Len(ids)
           /\ \A k \in 1..Len(ids) :
                  /\ record.subjects[k].paper_id = ids[k]
                  /\ record.subjects[k].internal = MarkAt(marks, 2 * k)
                  /\ record.subjects[k].external = MarkAt(marks, 2 * k + 1)
                  /\ record.subjects[k].total = TotalAt(totals, 2 * k)
                  /\ record.subjects[k].total # NoneInt =>
                         record.subjects[k].grade =
                             total_match(Strip(CellAt(totals, 2 * k))).grade

\* the records that the step adds are made of blocks of the tables of the
\* page that the step reads
AddedRecordsReadInLockStep ==
    parser_pc = "parsing" /\ page_num' = page_num + 1 =>
        \A r \in (Len(self_results) + 1)..Len(self_results') :
            \E t \in 1..Len(pdf[page_num'].tables) :
                \E i \in 1..(Len(pdf[page_num'].tables[t]) - 1) :
                    ReadInLockStep(self_results'[r],
                                   pdf[page_num'].tables[t], i)

\* C24: every record that parse() adds is made of a block of a table of the
\* page being read, whose k-th paper identifier gives the k-th subject, with
\* internal and external from columns 2k and 2k+1 of the marks row and total
\* and grade from column 2k of the totals row, the subjects in the order of
\* the paper identifiers.
C24_MarksFromColumns2kAnd2kPlus1 == [][AddedRecordsReadInLockStep]_vars

\* the record of 063 / EVA, whose second paper stands in column 3, has the
\* external mark of column 5 and the total of column 4
C24_Witness ==
    \E r \in 1..Len(self_results) :
        /\ self_results[r].roll_no = <<"0","6","3">>
        /\ Len(self_results[r].subjects) = 2
        /\ self_results[r].subjects[1].internal = 30
        /\ self_results[r].subjects[1].external = 45
        /\ self_results[r].subjects[1].total = 75
        /\ self_results[r].subjects[2].paper_id = <<"0","1","5","1","0","2">>
        /\ self_results[r].subjects[2].external = 50
        /\ self_results[r].subjects[2].total = 45

----------------------------------------------------------------------------
(* C25: credits_secured *)

\* the grades that secure no credit
NotSecuredGrades == {<<"F">>, <<"A">>, <<"R","L">>, <<"C">>, <<"D">>}

\* the sum of the credits of the subjects whose grade is not one of them
CreditsOutsideNotSecured(subjects) ==
    LET counted == SelectSeq(subjects,
                             LAMBDA s : s.grade \notin NotSecuredGrades)
    IN  SumSeq([k \in 1..Len(counted) |-> counted[k].credits])

\* C25: the credits_secured of every record equals the sum of the credits of
\* its subjects whose grade is not in {F, A, RL, C, D}.
C25_CreditsSecuredIsTheSum ==
    \A r \in 1..Len(self_results) :
        self_results[r].total_credits_secured =
            CreditsOutsideNotSecured(self_results[r].subjects)

----------------------------------------------------------------------------
(* C26: a block at the end of the table *)

\* row i of the table opens a block that the scan takes, with a roll number
OpensEmittedBlock(table, i) ==
    /\ IsStudentRow(RowAt(table, i))
    /\ FirstIdentityLine(RowAt(table, i)) # <<>>

\* the record has the roll number of the row and one subject per paper
\* identifier of the row, with the paper_id and the credits of the
\* identifier; total is absent, and so are internal and external when the
\* marks row is missing
TruncatedRecord(record, row, marks_missing) ==
    /\ record.roll_no = FirstIdentityLine(row)
    /\ Len(record.subjects) = Len(papers_of(row))
    /\ \A k \in 1..Len(record.subjects) :
           /\ record.subjects[k].paper_id = papers_of(row)[k].paper_id
           /\ record.subjects[k].credits = papers_of(row)[k].credits
           /\ record.subjects[k].total = NoneInt
           /\ marks_missing => /\ record.subjects[k].internal = NoneInt
                               /\ record.subjects[k].external = NoneInt

----------------------------------------------------------------------------
(* C27: a block that fails to parse *)

\* parsing the block of row i fails: it names a paper and its marks row or
\* its totals row is None, so that len() raises inside the try
BlockFails(table, i) ==
    /\ papers_of(RowAt(table, i)) # <<>>
    /\ \/ RowOrEmpty(table, i + 1) = NoneRow
       \/ RowOrEmpty(table, i + 2) = NoneRow

\* the blocks of the student tables of the result pages of the PDF that do
\* not fail, as <<page, table, row>>
BlocksThatParse ==
    UNION {UNION {{<<n, t, i>> :
                      i \in {j \in 1..(Len(pdf[n].tables[t]) - 1) :
                                /\ OpensEmittedBlock(pdf[n].tables[t], j)
                                /\ ~BlockFails(pdf[n].tables[t], j)}} :
                  t \in {u \in 1..Len(pdf[n].tables) :
                            IsStudentTable(pdf[n].tables[u])}} :
           n \in {m \in 1..Len(pdf) : ReadAsResultPage(pdf[m])}}

\* C27: parse() returns, and its records are those of all the blocks that do
\* not fail: every such block of every student table of every result page
\* has its record, whatever block before it has failed, and there is one
\* record per such block.
C27_OnlyTheFailingBlockIsSkipped ==
    parser_pc = "returned" /\ Len(returned) = 1 =>
        /\ Len(self_results) = Cardinality(BlocksThatParse)
        /\ \A b \in BlocksThatParse :
               \E r \in 1..Len(self_results) :
                   self_results[r].roll_no =
                       FirstIdentityLine(RowAt(pdf[b[1]].tables[b[2]], b[3]))

\* parse() has returned from a PDF whose first table has a failing block
\* between two others and is followed by another table and another result
\* page: the records are those of the blocks around the failing one, of the
\* next table and of the next page
C27_Witness ==
    /\ parser_pc = "returned" /\ Len(returned) = 1
    /\ Len(pdf) = 2
    /\ pdf[1].tables = <<TableNoneRow, TableD>>
    /\ BlockFails(TableNoneRow, 4)
    /\ ReadAsResultPage(pdf[2])
    /\ Len(self_results) >= 4
    /\ self_results[1].roll_no = <<"0","5","9">>
    /\ self_results[2].roll_no = <<"0","6","1">>
    /\ self_results[3].roll_no = <<"0","6","3">>
    /\ \A r \in 1..Len(self_results) :
           self_results[r].roll_no # <<"0","6","0">>

----------------------------------------------------------------------------
(* C28 and C29: the scheme table *)

\* every entry of the scheme table is still there, unchanged, after the step
EntriesKept ==
    \A p \in DOMAIN self_scheme_info :
        /\ p \in DOMAIN self_scheme_info'
        /\ self_scheme_info'[p] = self_scheme_info[p]

\* the step reads a page as a result page
ReadsResultPage ==
    /\ parser_pc = "parsing"
    /\ page_num' = page_num + 1
    /\ ReadAsResultPage(pdf[page_num'])

\* C28: the scheme table is write-once and append-only: no step changes or
\* removes an entry that has been recorded, and a step that reads a result
\* page leaves the scheme table as it is.
C28_SchemeTableWriteOnce ==
    [][/\ EntriesKept
       /\ ReadsResultPage => self_scheme_info' = self_scheme_info]_vars

\* the pages parse() has read as scheme pages so far
SchemePagesRead ==
    {n \in 1..Len(pdf) :
        /\ pdf[n].text.scheme
        /\ \/ returned # <<>>
           \/ parser_pc = "parsing" /\ n <= page_num}

\* the header row of the table contains "Paper ID"
HeaderHasPaperID(table) ==
    /\ table # <<>>
    /\ RowAt(table, 0) # NoneRow
    /\ \E c \in 1..Len(RowAt(table, 0)) :
           /\ RowAt(table, 0)[c] # NoneSeq
           /\ Contains(RowAt(table, 0)[c], PaperIDHeader)

\* the text of a cell, empty for a None cell
CellText(row, c) ==
    IF CellAt(row, c) = NoneSeq THEN <<>> ELSE Strip(CellAt(row, c))

\* a data row with at least 4 cells and a non-empty paper_id
YieldsEntry(row) ==
    /\ row # NoneRow
    /\ Len(row) >= 4
    /\ CellText(row, 0) # <<>>

\* the entry of such a row: credits 0 when the cell is not a number
EntryOf(row) ==
    [code |-> CellText(row, 1), subject |-> CellText(row, 2),
     credits |-> IF CellText(row, 3) # <<>> /\ IsDigits(CellText(row, 3))
                 THEN ParseDigits(CellText(row, 3)) ELSE 0]

\* the data rows of the "Paper ID" tables of the scheme pages read so far
\* that yield an entry
RowsThatYield ==
    UNION {UNION {{pdf[n].tables[t][i] :
                      i \in {j \in 2..Len(pdf[n].tables[t]) :
                                YieldsEntry(pdf[n].tables[t][j])}} :
                  t \in {u \in 1..Len(pdf[n].tables) :
                            HeaderHasPaperID(pdf[n].tables[u])}} :
           n \in SchemePagesRead}

\* C29: the scheme table has an entry for the paper_id of every data row
\* with at least 4 cells and a non-empty paper_id of the "Paper ID" tables
\* of the scheme pages read, and for nothing else; every entry is the
\* {code, subject, credits} of such a row, with credits 0 where the cell is
\* not a number.
C29_SchemeRowsYieldEntries ==
    /\ DOMAIN self_scheme_info = {CellText(row, 0) : row \in RowsThatYield}
    /\ \A p \in DOMAIN self_scheme_info :
           \E row \in RowsThatYield :
               CellText(row, 0) = p /\ self_scheme_info[p] = EntryOf(row)

\* the page with SchemeTable2 and a student table has been read as a scheme
\* page: 015101 has credits 0, the row of three cells and the student table
\* have left nothing
C29_Witness ==
    /\ parser_pc = "parsing"
    /\ returned = <<>>
    /\ page_num = 1
    /\ pdf[1].tables = <<SchemeTable2, TableA>>
    /\ pdf[1].text.scheme
    /\ DOMAIN self_scheme_info = {<<"0","1","5","1","0","1">>}
    /\ self_scheme_info[<<"0","1","5","1","0","1">>].credits = 0

----------------------------------------------------------------------------
(* C30: the rows of a block *)

\* a record of the result collection was made of the block that row i opens
RecordFrom(i) ==
    \E r \in 1..Len(self_results) :
        ReadInLockStep(self_results[r], TheTable, i)

\* C30: no row is used by two blocks: when a record was made of the block of
\* row i, with row i+1 as its marks row and row i+2 as its totals row, no
\* record was made of a block that row i+1 or row i+2 opens.
C30_NoRowInTwoBlocks ==
    parser_pc = "returned" /\ Len(returned) = 1 =>
        \A i \in 1..(Len(TheTable) - 1) :
            \A j \in {i + 1, i + 2} :
                j < Len(TheTable) => ~(RecordFrom(i) /\ RecordFrom(j))

====
